---- MODULE Spec2Model ----
(***************************************************************************)
(* Rate-limiting admission control of asgi_toolkit: the two counting       *)
(* backends (InMemoryBackend, RedisBackend), the policy resolver, the key  *)
(* generator, the activation check and RateLimitingMiddleware.__call__.    *)
(*                                                                         *)
(* Strings are sequences of one-character strings, so that str.replace,    *)
(* str.lower and f-string concatenation are computed, not assumed.         *)
(* time.time() is one integer wall clock `now` that never goes backwards.  *)
(*                                                                         *)
(* Spec            direct hit() calls on either backend                    *)
(* SpecMw          concurrent requests through the middleware, over the    *)
(*                 in-memory backend or one whose hit() raises             *)
(* SpecKey         generate_rate_limit_key on pairs of triples             *)
(* SpecPolicy      get_rate_limit_policy on override configurations        *)
(* SpecActivation  is_rate_limiting_activated on requests                  *)
(* SpecRetryAfter  _send_rate_limit_response on results and clock readings *)
(* SpecConfig      construction of PolicyConfig and RateLimitConfig        *)
(* SpecRedisLive   RedisBackend.hit calls that may be cancelled, under     *)
(*                 fair scheduling                                         *)
(* SpecThreads     InMemoryBackend.hit called from several threads         *)
(* SpecContext     requests through ContextMiddleware, on several tasks    *)
(* SpecMwFail      requests through the middleware whose downstream        *)
(*                 handler may raise or be cancelled                       *)
(* SpecHeaders     the rate-limit headers of both responses, on results    *)
(*                 whose reset is an int or a float                        *)
(* SpecETag        one response passing through ETagMiddleware             *)
(* SpecSubstitute  one sequence of non-overlapping hits given to both      *)
(*                 backends side by side                                   *)
(***************************************************************************)
EXTENDS Integers, Sequences, FiniteSets, TLC

VARIABLES
    now,        \* int(time.time()): the wall clock, in seconds
    backend,    \* which RateLimitingBackend the run uses: "inmemory" | "redis",
                \* or "unavailable": one whose hit() raises
    hit_limit,  \* the limit the direct callers of hit() pass
    counters,   \* InMemoryBackend._counters: (key, window) -> {count, window_start_time}
    store,      \* the Redis keyspace: redis_key -> {value, expire_at, created_at}
    started,    \* RedisBackend.hit coroutines that have read the clock and await INCR
    calls,      \* the hit() invocations counted so far, in the order they were counted
                \* (SpecThreads: every invocation, from its clock reading on)
    args,       \* the arguments of the utils.py function being called
    ret,        \* its return value: [called |-> FALSE] before the call
    self_config, \* RateLimitingMiddleware.config
    reqs,       \* the __call__ invocations so far, in arrival order
    total_requests,         \* the "total_requests" counter
    rate_limited_requests,  \* the "rate_limited_requests" counter
    warnings,   \* the records passed to logger.warning
    _http_request_context,  \* the ContextVar "ctx": its value in each task's context
    ctx_dicts,  \* the dict objects the ContextVar has held: id -> the values written
    ctx_tasks,  \* the server's tasks: what each one is running, and the outcome
                \* of its latest access to http_request_context
    ctx_reqs,   \* the ContextMiddleware.__call__ invocations so far
    etag_call,     \* the ETagMiddleware.__call__ invocation: its scope, what the
                   \* downstream application emits and how far it has got
    etag_wrapper,  \* the ETagSendWrapper object of that invocation
    etag_sent      \* the messages that reached the send ETagMiddleware was given

backendVars == <<now, backend, hit_limit, counters, store, started, calls>>
pureVars == <<args, ret>>
mwVars == <<self_config, reqs, total_requests, rate_limited_requests, warnings>>
ctxVars == <<_http_request_context, ctx_dicts, ctx_tasks, ctx_reqs>>
etagVars == <<etag_call, etag_wrapper, etag_sent>>
vars == <<now, backend, hit_limit, counters, store, started, calls, args, ret,
          self_config, reqs, total_requests, rate_limited_requests, warnings,
          _http_request_context, ctx_dicts, ctx_tasks, ctx_reqs,
          etag_call, etag_wrapper, etag_sent>>

(* ------------------------------ bounds -------------------------------- *)
MaxTime == 3
MaxHits == 3
MaxInflight == 2
MaxRequests == 2
MaxMwTime == 2
MaxIdLen == 2
MaxHeaders == 2
MaxThreadHits == 2
MaxCtxRequests == 2
MaxCtxDepth == 2
MaxCtxDicts == 3
MaxSubstHits == 2
MaxChunks == 2

Limits == {1, 2}
Windows == {2, 3}
RedisWindows == {2}

(* --------------------------- small helpers ---------------------------- *)
Max(a, b) == IF a >= b THEN a ELSE b

Restrict(f, S) == [x \in S |-> f[x]]

(* str.replace(old, new) for a one-character `old`: every occurrence. *)
Replace(s, old, new) == [i \in DOMAIN s |-> IF s[i] = old THEN new ELSE s[i]]

(* ------------------- rate_limiting/utils.py: the key ------------------- *)
RatelimitPrefix == <<"r", "a", "t", "e", "l", "i", "m", "i", "t">>

(* generate_rate_limit_key that joins the components as they come. *)
generate_rate_limit_key_raw(client_id, route, method) ==
    RatelimitPrefix \o <<":">> \o client_id \o <<":">> \o route \o <<":">> \o method

(* lines 56-62 *)
generate_rate_limit_key(client_id, route, method) ==
    LET safe_client_id == Replace(client_id, ":", "_")
        safe_route == Replace(route, ":", "_")
        safe_method == Replace(method, ":", "_")
    IN  RatelimitPrefix \o <<":">> \o safe_client_id \o <<":">> \o safe_route
            \o <<":">> \o safe_method

(* The keys the direct callers of hit() use. *)
BackendKeys ==
    { generate_rate_limit_key(<<"a">>, <<"/">>, <<"G", "E", "T">>),
      generate_rate_limit_key(<<"b">>, <<"/">>, <<"G", "E", "T">>) }

RedisKeys == { generate_rate_limit_key(<<"a">>, <<"/">>, <<"G", "E", "T">>) }

(* ---------------------- strings: lower, split ------------------------- *)
UpperAlpha == <<"A", "B", "C", "D", "E", "F", "G", "H", "I", "J", "K", "L", "M",
                "N", "O", "P", "Q", "R", "S", "T", "U", "V", "W", "X", "Y", "Z">>
LowerAlpha == <<"a", "b", "c", "d", "e", "f", "g", "h", "i", "j", "k", "l", "m",
                "n", "o", "p", "q", "r", "s", "t", "u", "v", "w", "x", "y", "z">>

LowerChar(c) ==
    IF \E i \in DOMAIN UpperAlpha : UpperAlpha[i] = c
    THEN LowerAlpha[CHOOSE i \in DOMAIN UpperAlpha : UpperAlpha[i] = c]
    ELSE c

(* str.lower() *)
Lower(s) == [i \in DOMAIN s |-> LowerChar(s[i])]

(* str.find(c) + 1: the first position of c in s, 0 when absent *)
IndexOf(s, c) ==
    IF \E i \in DOMAIN s : s[i] = c
    THEN CHOOSE i \in DOMAIN s : s[i] = c /\ \A j \in 1..(i - 1) : s[j] # c
    ELSE 0

(* str.split(sep) *)
RECURSIVE Split(_, _)
Split(s, sep) ==
    LET i == IndexOf(s, sep)
    IN  IF i = 0 THEN <<s>>
        ELSE <<SubSeq(s, 1, i - 1)>> \o Split(SubSeq(s, i + 1, Len(s)), sep)

(* None, for the optional fields of RateLimitConfig *)
None == <<"<None>">>

(* bool(x) of an optional string: neither None nor "" *)
Truthy(x) == x # None /\ x # <<>>

OFF == <<"o", "f", "f">>

(* ----------- rate_limiting/utils.py: the activation signal ------------ *)
(* urllib.parse.parse_qs without percent escapes: the non-blank name=value
   fields of the query string, in order. *)
RECURSIVE QsFields(_)
QsFields(fields) ==
    IF fields = <<>> THEN <<>>
    ELSE LET name_value == Head(fields)
             eq == IndexOf(name_value, "=")
             rest == QsFields(Tail(fields))
         IN  IF name_value = <<>> \/ eq = 0 \/ eq = Len(name_value) THEN rest
             ELSE << <<SubSeq(name_value, 1, eq - 1),
                       SubSeq(name_value, eq + 1, Len(name_value))>> >> \o rest

parse_qs(query_string) == QsFields(Split(query_string, "&"))

(* name in query_params *)
HasParam(query_params, name) == \E i \in DOMAIN query_params : query_params[i][1] = name

(* query_params[name][0] *)
FirstParam(query_params, name) ==
    query_params[CHOOSE i \in DOMAIN query_params :
        /\ query_params[i][1] = name
        /\ \A j \in 1..(i - 1) : query_params[j][1] # name][2]

(* name in dict(scope["headers"]) *)
HasHeader(headers, name) == \E i \in DOMAIN headers : headers[i][1] = name

(* dict(scope["headers"])[name]: the last pair of that name wins *)
HeaderValue(headers, name) ==
    headers[CHOOSE i \in DOMAIN headers :
        /\ headers[i][1] = name
        /\ \A j \in (i + 1)..Len(headers) : headers[j][1] # name][2]

(* is_rate_limiting_activated that returns as soon as the header activates. *)
is_rate_limiting_activated_header_first(scope, config) ==
    LET query_params == parse_qs(scope.query_string)
        header_name == Lower(config.activation_header)
        header_set == Truthy(config.activation_header) /\ HasHeader(scope.headers, header_name)
        param_name == config.activation_query_param
        param_set == Truthy(param_name) /\ HasParam(query_params, param_name)
    IN  IF header_set
        THEN Lower(HeaderValue(scope.headers, header_name)) # OFF
        ELSE param_set /\ Lower(FirstParam(query_params, param_name)) # OFF

(* is_rate_limiting_activated that compares the values with "off" as they are
   written, without lower(). *)
is_rate_limiting_activated_case_sensitive(scope, config) ==
    LET query_params == parse_qs(scope.query_string)
        header_name == Lower(config.activation_header)
        header_set == Truthy(config.activation_header) /\ HasHeader(scope.headers, header_name)
        header_off == header_set /\ HeaderValue(scope.headers, header_name) = OFF
        param_name == config.activation_query_param
        param_set == Truthy(param_name) /\ HasParam(query_params, param_name)
        param_off == param_set /\ FirstParam(query_params, param_name) = OFF
    IN  IF header_off THEN FALSE
        ELSE IF param_off THEN FALSE
        ELSE header_set \/ param_set

(* is_rate_limiting_activated that starts from is_active = True. *)
is_rate_limiting_activated_default_on(scope, config) ==
    LET query_params == parse_qs(scope.query_string)
        header_name == Lower(config.activation_header)
        header_set == Truthy(config.activation_header) /\ HasHeader(scope.headers, header_name)
        header_off == header_set /\ Lower(HeaderValue(scope.headers, header_name)) = OFF
        param_name == config.activation_query_param
        param_set == Truthy(param_name) /\ HasParam(query_params, param_name)
        param_off == param_set /\ Lower(FirstParam(query_params, param_name)) = OFF
    IN  IF header_off THEN FALSE
        ELSE IF param_off THEN FALSE
        ELSE TRUE

is_rate_limiting_activated(scope, config) ==
    LET query_params == parse_qs(scope.query_string)
        header_name == Lower(config.activation_header)
        header_set == Truthy(config.activation_header) /\ HasHeader(scope.headers, header_name)
        header_off == header_set /\ Lower(HeaderValue(scope.headers, header_name)) = OFF
        param_name == config.activation_query_param
        param_set == Truthy(param_name) /\ HasParam(query_params, param_name)
        param_off == param_set /\ Lower(FirstParam(query_params, param_name)) = OFF
    IN  IF header_off THEN FALSE                \* line 25
        ELSE IF param_off THEN FALSE            \* line 34
        ELSE header_set \/ param_set            \* line 36: is_active

(* ------------- rate_limiting/utils.py: policy resolution -------------- *)
(* A route override is a PolicyConfig or a dict from method to PolicyConfig. *)
PolicyConfig(limit, window) == [kind |-> "policy", limit |-> limit, window |-> window]

MethodPolicyDict(d) == [kind |-> "methods", methods |-> d]

(* PolicyConfigValid that forgets the window. *)
PolicyConfigValidLimitOnly(limit, window) == limit > 0

(* config.py lines 14-17 *)
PolicyConfigValid(limit, window) == limit > 0 /\ window > 0

(* get_rate_limit_policy whose method mapping falls back to one of its own entries. *)
get_rate_limit_policy_any_method(route, method, config) ==
    IF DOMAIN config.policy_overrides = {} \/ route \notin DOMAIN config.policy_overrides
    THEN <<config.default_limit, config.default_window>>
    ELSE LET route_policy == config.policy_overrides[route]
         IN  IF route_policy.kind = "policy"
             THEN <<route_policy.limit, route_policy.window>>
             ELSE IF DOMAIN route_policy.methods # {}
             THEN LET m == IF method \in DOMAIN route_policy.methods THEN method
                           ELSE CHOOSE x \in DOMAIN route_policy.methods : TRUE
                  IN  <<route_policy.methods[m].limit, route_policy.methods[m].window>>
             ELSE <<config.default_limit, config.default_window>>

get_rate_limit_policy(route, method, config) ==
    IF DOMAIN config.policy_overrides = {} \/ route \notin DOMAIN config.policy_overrides
    THEN <<config.default_limit, config.default_window>>
    ELSE LET route_policy == config.policy_overrides[route]
         IN  IF route_policy.kind = "policy"
             THEN <<route_policy.limit, route_policy.window>>
             ELSE IF method \in DOMAIN route_policy.methods
             THEN <<route_policy.methods[method].limit, route_policy.methods[method].window>>
             ELSE <<config.default_limit, config.default_window>>

(* --------------- rate_limiting/protocols.py: the result ---------------- *)
(* A __post_init__ that accepts every remaining (the backend would have to
   clamp). *)
RateLimitResultValidAny(remaining) == TRUE

(* RateLimitResult.__post_init__ raises on a negative remaining. *)
RateLimitResultValid(remaining) == remaining >= 0

(* ------------- rate_limiting/backends/inmemory.py -------------------- *)
(* line 41: the sweep's test of one entry *)
CleanupExpired(current_time, window_start_time, window) ==
    current_time >= window_start_time + window

(* A sweep that removes nothing. *)
_cleanup_expired_entries_none(cs, current_time) == cs

_cleanup_expired_entries(cs, current_time) ==
    Restrict(cs, { wk \in DOMAIN cs :
                     ~CleanupExpired(current_time, cs[wk].window_start_time, wk[2]) })

(* line 20: the hit's own test of its entry *)
WindowExpired(current_time, window_start_time, window) ==
    current_time >= window_start_time + window

(* IncrementCount that stores 1 instead of adding 1. *)
IncrementCountAssign(count) == 1

(* IncrementCount that stops counting once the limit is reached. *)
IncrementCountSaturating(count) == IF count >= hit_limit THEN count ELSE count + 1

(* line 26 *)
IncrementCount(count) == count + 1

(* InMemoryCounters with both expiry tests one second early (>= start + window - 1). *)
InMemoryCountersEarly(cs, key, window, current_time) ==
    LET window_key == <<key, window>>
        c1 == Restrict(cs, { wk \in DOMAIN cs :
                  ~(current_time >= cs[wk].window_start_time + wk[2] - 1) })
        c3 == IF window_key \notin DOMAIN c1
              THEN [wk \in DOMAIN c1 \cup {window_key} |->
                      IF wk = window_key
                      THEN [count |-> 0, window_start_time |-> current_time]
                      ELSE c1[wk]]
              ELSE c1
    IN  [c3 EXCEPT ![window_key].count = @ + 1]

(* InMemoryCounters with both expiry tests strict (> instead of >=). *)
InMemoryCountersLate(cs, key, window, current_time) ==
    LET window_key == <<key, window>>
        c1 == Restrict(cs, { wk \in DOMAIN cs :
                  ~(current_time > cs[wk].window_start_time + wk[2]) })
        c3 == IF window_key \notin DOMAIN c1
              THEN [wk \in DOMAIN c1 \cup {window_key} |->
                      IF wk = window_key
                      THEN [count |-> 0, window_start_time |-> current_time]
                      ELSE c1[wk]]
              ELSE c1
    IN  [c3 EXCEPT ![window_key].count = @ + 1]

(* InMemoryCounters that opens a new window at the last multiple of `window`
   after the key's previous window_start_time. *)
InMemoryCountersAligned(cs, key, window, current_time) ==
    LET window_key == <<key, window>>
        c1 == Restrict(cs, { wk \in DOMAIN cs :
                  ~(current_time >= cs[wk].window_start_time + wk[2]) })
        start == IF window_key \in DOMAIN cs
                 THEN cs[window_key].window_start_time
                        + ((current_time - cs[window_key].window_start_time) \div window)
                            * window
                 ELSE current_time
        c3 == IF window_key \notin DOMAIN c1
              THEN [wk \in DOMAIN c1 \cup {window_key} |->
                      IF wk = window_key
                      THEN [count |-> 0, window_start_time |-> start]
                      ELSE c1[wk]]
              ELSE c1
    IN  [c3 EXCEPT ![window_key].count = @ + 1]

(* lines 16-26: the counter map after a hit *)
InMemoryCounters(cs, key, window, current_time) ==
    LET window_key == <<key, window>>
        c1 == _cleanup_expired_entries(cs, current_time)
        c2 == IF window_key \in DOMAIN c1
                 /\ WindowExpired(current_time, c1[window_key].window_start_time, window)
              THEN Restrict(c1, DOMAIN c1 \ {window_key})
              ELSE c1
        c3 == IF window_key \notin DOMAIN c2
              THEN [wk \in DOMAIN c2 \cup {window_key} |->
                      IF wk = window_key
                      THEN [count |-> 0, window_start_time |-> current_time]
                      ELSE c2[wk]]
              ELSE c2
    IN  [c3 EXCEPT ![window_key].count = IncrementCount(@)]

(* Allowed with the comparison off by one. *)
AllowedStrict(count, limit) == count < limit

(* Allowed that lets one hit more through. *)
AllowedLoose(count, limit) == count <= limit + 1

(* line 31 *)
Allowed(count, limit) == count <= limit

(* line 32 *)
Remaining(count, limit) == Max(0, limit - count)

(* InMemoryReset that reports the last second of the window. *)
InMemoryResetEarly(window_start_time, window) == window_start_time + window - 1

(* InMemoryReset that forgets to add the window. *)
InMemoryResetStart(window_start_time, window) == window_start_time

(* line 33 *)
InMemoryReset(window_start_time, window) == window_start_time + window

(* ---------------- rate_limiting/backends/redis.py --------------------- *)
NoExpiry == -1

Digits == <<"0", "1", "2", "3", "4", "5", "6", "7", "8", "9">>

RECURSIVE Str(_)
Str(n) ==
    IF n < 0 THEN <<"-">> \o Str(0 - n)
    ELSE IF n < 10 THEN <<Digits[n + 1]>>
    ELSE Str(n \div 10) \o <<Digits[(n % 10) + 1]>>

(* A Redis key that leaves the window length out. *)
RedisKeyNoWindow(key, window) ==
    <<"r", "a", "t", "e", "_", "l", "i", "m", "i", "t", ":">> \o key

(* line 36: f"rate_limit:{key}:{window}" *)
RedisKey(key, window) ==
    <<"r", "a", "t", "e", "_", "l", "i", "m", "i", "t", ":">> \o key \o <<":">> \o Str(window)

(* INCR as a read followed by a write of the caller: an increment made while
   the key still has no expiry is lost. *)
RedisIncrLost(st, rk, t) ==
    IF rk \in DOMAIN st
    THEN [st EXCEPT ![rk].value = IF st[rk].expire_at = NoExpiry THEN @ ELSE @ + 1]
    ELSE [k \in DOMAIN st \cup {rk} |->
            IF k = rk THEN [value |-> 1, expire_at |-> NoExpiry, created_at |-> t]
            ELSE st[k]]

(* INCR: creates the key at 1 without expiry, else adds one and keeps the expiry. *)
RedisIncr(st, rk, t) ==
    IF rk \in DOMAIN st
    THEN [st EXCEPT ![rk].value = @ + 1]
    ELSE [k \in DOMAIN st \cup {rk} |->
            IF k = rk THEN [value |-> 1, expire_at |-> NoExpiry, created_at |-> t]
            ELSE st[k]]

(* EXPIRE: sets the timeout of an existing key. *)
RedisExpire(st, rk, seconds, t) ==
    IF rk \in DOMAIN st THEN [st EXCEPT ![rk].expire_at = t + seconds] ELSE st

(* TTL: -2 for a missing key, -1 for a key without expiry, else seconds left. *)
RedisTtl(st, rk, t) ==
    IF rk \notin DOMAIN st THEN -2
    ELSE IF st[rk].expire_at = NoExpiry THEN -1
    ELSE st[rk].expire_at - t

(* The keys Redis has dropped by time t. *)
RedisEvict(st, t) ==
    Restrict(st, { k \in DOMAIN st : st[k].expire_at = NoExpiry \/ st[k].expire_at > t })

(* A reset that falls back to the window for the negative sentinels only. *)
RedisResetNegativeOnly(current_time, ttl, window) ==
    IF ttl < 0 THEN current_time + window ELSE current_time + ttl

(* A reset that ignores the TTL read. *)
RedisResetWindowOnly(current_time, ttl, window) == current_time + window

(* lines 48-51 *)
RedisReset(current_time, ttl, window) ==
    IF ttl <= 0 THEN current_time + window ELSE current_time + ttl

(* ------------------------- direct hit() calls -------------------------- *)
(* A hit whose count has been taken; pc tells what its coroutine awaits next. *)
CountedCall(key, limit, window, current_time, count, win, pc) ==
    [ key |-> key, limit |-> limit, window |-> window, current_time |-> current_time,
      pc |-> pc, count |-> count, win |-> win,
      allowed |-> FALSE, remaining |-> -1, reset |-> -1 ]

Inflight ==
    Len(started) + Cardinality({i \in DOMAIN calls : calls[i].pc \notin {"done", "cancelled"}})

RemoveAt(s, i) == [j \in 1..(Len(s) - 1) |-> IF j < i THEN s[j] ELSE s[j + 1]]

(* InMemoryBackend.hit: no await inside, one step. *)
MemHit(key, window) ==
    /\ backend = "inmemory"
    /\ Len(calls) < MaxHits
    /\ LET cs == InMemoryCounters(counters, key, window, now)
           e == cs[<<key, window>>]
           remaining == Remaining(e.count, hit_limit)
       IN  /\ RateLimitResultValid(remaining)
           /\ counters' = cs
           /\ calls' = Append(calls,
                  [CountedCall(key, hit_limit, window, now, e.count,
                               e.window_start_time, "done") EXCEPT
                      !.allowed = Allowed(e.count, hit_limit),
                      !.remaining = remaining,
                      !.reset = InMemoryReset(e.window_start_time, window)])
    /\ UNCHANGED <<now, backend, hit_limit, store, started, pureVars, ctxVars, etagVars, mwVars>>

(* RedisBackend.hit, line 35: the clock is read, then INCR is awaited. *)
RedisHitStart(key, window) ==
    /\ backend = "redis"
    /\ Len(calls) + Len(started) < MaxHits
    /\ Inflight < MaxInflight
    /\ started' = Append(started, [key |-> key, window |-> window, current_time |-> now])
    /\ UNCHANGED <<now, backend, hit_limit, counters, store, calls, pureVars, ctxVars, etagVars, mwVars>>

(* line 38: INCR runs on the server; line 40 decides whether EXPIRE follows. *)
RedisHitIncr(j) ==
    /\ LET s == started[j]
           rk == RedisKey(s.key, s.window)
           st == RedisIncr(store, rk, now)
           count == st[rk].value
       IN  /\ store' = st
           /\ calls' = Append(calls,
                  CountedCall(s.key, hit_limit, s.window, s.current_time, count,
                              st[rk].created_at, IF count = 1 THEN "expire" ELSE "ttl"))
    /\ started' = RemoveAt(started, j)
    /\ UNCHANGED <<now, backend, hit_limit, counters, pureVars, ctxVars, etagVars, mwVars>>

(* line 41 *)
RedisHitExpire(i) ==
    /\ calls[i].pc = "expire"
    /\ store' = RedisExpire(store, RedisKey(calls[i].key, calls[i].window),
                            calls[i].window, now)
    /\ calls' = [calls EXCEPT ![i].pc = "ttl"]
    /\ UNCHANGED <<now, backend, hit_limit, counters, started, pureVars, ctxVars, etagVars, mwVars>>

(* lines 43-56: TTL runs on the server and the result is built. *)
RedisHitTtl(i) ==
    /\ calls[i].pc = "ttl"
    /\ LET c == calls[i]
           ttl == RedisTtl(store, RedisKey(c.key, c.window), now)
           remaining == Remaining(c.count, c.limit)
       IN  /\ RateLimitResultValid(remaining)
           /\ calls' = [calls EXCEPT ![i].pc = "done",
                                     ![i].allowed = Allowed(c.count, c.limit),
                                     ![i].remaining = remaining,
                                     ![i].reset = RedisReset(c.current_time, ttl, c.window)]
    /\ UNCHANGED <<now, backend, hit_limit, counters, store, started, pureVars, ctxVars, etagVars, mwVars>>

(* Redis drops the keys whose timeout falls inside the current second: until
   then TTL reports 0 for them. *)
RedisExpired ==
    /\ backend = "redis"
    /\ store' = RedisEvict(store, now)
    /\ store' # store
    /\ UNCHANGED <<now, backend, hit_limit, counters, started, calls, pureVars, ctxVars, etagVars, mwVars>>

(* One second passes; no key outlives the second its timeout falls in. *)
Tick ==
    /\ now < MaxTime
    /\ now' = now + 1
    /\ store' = RedisEvict(store, now)
    /\ UNCHANGED <<backend, hit_limit, counters, started, calls, pureVars, ctxVars, etagVars, mwVars>>

EmptyMap == [x \in {} |-> 0]

NotCalled == [called |-> FALSE]

Returned(value) == [called |-> TRUE, value |-> value]

(* The utils.py functions are not under call. *)
PureIdle == args = <<>> /\ ret = NotCalled

(* No request is handled. *)
MwIdle ==
    /\ self_config = <<>>
    /\ reqs = <<>>
    /\ total_requests = 0
    /\ rate_limited_requests = 0
    /\ warnings = <<>>

(* No request context is in use. *)
CtxIdle ==
    /\ _http_request_context = <<>>
    /\ ctx_dicts = <<>>
    /\ ctx_tasks = <<>>
    /\ ctx_reqs = <<>>

(* No response passes through ETagMiddleware. *)
ETagIdle ==
    /\ etag_call = [pc |-> "idle"]
    /\ etag_wrapper = [constructed |-> FALSE]
    /\ etag_sent = <<>>

(* No backend is in use. *)
BackendIdle ==
    /\ now = 0
    /\ backend = "inmemory"
    /\ hit_limit = 1
    /\ counters = EmptyMap
    /\ store = EmptyMap
    /\ started = <<>>
    /\ calls = <<>>

Init ==
    /\ now = 0
    /\ backend \in {"inmemory", "redis"}
    /\ hit_limit \in Limits
    /\ counters = EmptyMap
    /\ store = EmptyMap
    /\ started = <<>>
    /\ calls = <<>>
    /\ PureIdle
    /\ MwIdle
    /\ CtxIdle
    /\ ETagIdle

Next ==
    \/ \E key \in BackendKeys, window \in Windows : MemHit(key, window)
    \/ \E key \in RedisKeys, window \in RedisWindows : RedisHitStart(key, window)
    \/ \E j \in DOMAIN started : RedisHitIncr(j)
    \/ \E i \in DOMAIN calls : RedisHitExpire(i)
    \/ \E i \in DOMAIN calls : RedisHitTtl(i)
    \/ RedisExpired
    \/ Tick

Spec == Init /\ [][Next]_vars

(* ===================== properties of the backends ====================== *)
Done(i) == calls[i].pc = "done"

(* Two counted hits fell into the same window of the same (key, window). *)
SameWindow(i, j) ==
    /\ calls[i].key = calls[j].key
    /\ calls[i].window = calls[j].window
    /\ calls[i].win = calls[j].win

SameCounter(i, j) ==
    /\ calls[i].key = calls[j].key
    /\ calls[i].window = calls[j].window

(* The position of hit i among the hits counted in its window. *)
NthInWindow(i) == Cardinality({j \in 1..i : SameWindow(i, j)})

(* C1: on either backend, of the hits of one key inside one window the first
   `limit` are allowed with remaining limit-1, ..., 0 and every later one is
   rejected with remaining 0. *)
C1_FirstLimitAllowed ==
    \A i \in DOMAIN calls :
        Done(i) =>
            LET n == NthInWindow(i)
                c == calls[i]
            IN  IF n <= c.limit
                THEN c.allowed /\ c.remaining = c.limit - n
                ELSE ~c.allowed /\ c.remaining = 0

C1_Witness ==
    \E i, j \in DOMAIN calls :
        /\ Done(i) /\ Done(j) /\ SameWindow(i, j)
        /\ NthInWindow(i) = calls[i].limit /\ calls[i].allowed /\ calls[i].remaining = 0
        /\ NthInWindow(j) = calls[j].limit + 1 /\ ~calls[j].allowed

(* The number of hits counted so far in window `win` of (key, window). *)
HitsIn(key, window, win) ==
    Cardinality({i \in DOMAIN calls :
        calls[i].key = key /\ calls[i].window = window /\ calls[i].win = win})

(* C2: every hit, allowed or rejected, adds exactly one to the counter of its
   (key, window): the stored count of a window is the number of hits counted in
   it, also beyond the limit. *)
C2_CountIsNumberOfHits ==
    /\ \A wk \in DOMAIN counters :
          counters[wk].count = HitsIn(wk[1], wk[2], counters[wk].window_start_time)
    /\ \A key \in RedisKeys, window \in RedisWindows :
          RedisKey(key, window) \in DOMAIN store =>
              store[RedisKey(key, window)].value
                  = HitsIn(key, window, store[RedisKey(key, window)].created_at)

C2_Witness ==
    \E wk \in DOMAIN counters :
        /\ counters[wk].count > hit_limit
        /\ counters[wk].count = HitsIn(wk[1], wk[2], counters[wk].window_start_time)

(* C3: in-process backend: a hit at t with start <= t < start + window adds one
   to the entry and keeps its start; a hit at t >= start + window leaves the
   entry with count 1 and start t. *)
C3_WindowBoundary ==
    [][ (backend = "inmemory" /\ Len(calls') = Len(calls) + 1) =>
          LET c == calls'[Len(calls')]
              wk == <<c.key, c.window>>
              t == c.current_time
          IN  wk \in DOMAIN counters =>
                LET old == counters[wk]
                IN  /\ (old.window_start_time <= t
                          /\ t < old.window_start_time + c.window)
                        => counters'[wk] = [count |-> old.count + 1,
                                            window_start_time |-> old.window_start_time]
                    /\ (t >= old.window_start_time + c.window)
                        => counters'[wk] = [count |-> 1, window_start_time |-> t]
      ]_vars

(* A hit one second before the end of its window, then one exactly at the end. *)
C3_Witness ==
    \E i, j, k \in DOMAIN calls :
        /\ backend = "inmemory"
        /\ i < j /\ j < k /\ SameCounter(i, j) /\ SameCounter(j, k)
        /\ calls[i].count = 1
        /\ calls[j].current_time = calls[i].current_time + calls[i].window - 1
        /\ calls[j].count = 2
        /\ calls[k].current_time = calls[i].current_time + calls[i].window
        /\ calls[k].count = 1 /\ calls[k].win = calls[k].current_time

(* The hit before i on the same (key, window), 0 if there is none. *)
PrevOnCounter(i) ==
    LET S == {j \in 1..(i - 1) : SameCounter(i, j)}
    IN  IF S = {} THEN 0 ELSE CHOOSE j \in S : \A k \in S : k <= j

(* C4: in-process backend: every hit's reset is the end of the window it was
   counted in (the window's first hit time + window); over the successive hits
   of one counter reset stays the same inside a window and strictly grows when
   a hit opens a new window. *)
C4_ResetIsWindowEnd ==
    backend = "inmemory" =>
        \A i \in DOMAIN calls :
            LET c == calls[i]
                p == PrevOnCounter(i)
            IN  /\ c.reset = c.win + c.window
                /\ c.current_time < c.reset
                /\ c.count = 1 => c.reset = c.current_time + c.window
                /\ (p # 0 /\ c.count > 1) => c.reset = calls[p].reset
                /\ (p # 0 /\ c.count = 1) => c.reset > calls[p].reset

C4_Witness ==
    \E i, j, k \in DOMAIN calls :
        /\ backend = "inmemory"
        /\ i = PrevOnCounter(j) /\ j = PrevOnCounter(k)
        /\ ~calls[j].allowed /\ calls[j].reset = calls[i].reset
        /\ calls[k].count = 1 /\ calls[k].reset > calls[j].reset

(* The allowed hits of (key, window) whose clock reading lies in [t, t + window]. *)
AllowedIn(key, window, t) ==
    {i \in DOMAIN calls :
        /\ calls[i].key = key /\ calls[i].window = window /\ calls[i].allowed
        /\ t <= calls[i].current_time /\ calls[i].current_time <= t + window}

(* C7: in-process backend: in any interval of `window` seconds at most
   2 * limit hits of one key are allowed. *)
C7_BurstBound ==
    backend = "inmemory" =>
        \A key \in BackendKeys, window \in Windows, t \in 0..MaxTime :
            Cardinality(AllowedIn(key, window, t)) <= 2 * hit_limit

(* The bound is reached: limit hits at the end of a window, limit at the start
   of the next. *)
C7_Witness ==
    /\ backend = "inmemory"
    /\ \E key \in BackendKeys, window \in Windows, t \in 0..MaxTime :
          /\ Cardinality(AllowedIn(key, window, t)) = 2 * hit_limit
          /\ \E i, j \in AllowedIn(key, window, t) : calls[i].win # calls[j].win

(* ============ generate_rate_limit_key on pairs of triples ============== *)
KeyChars == {"a", ":", "_"}

(* The strings over KeyChars of length at most MaxIdLen. *)
ClientIds == UNION { [1..n -> KeyChars] : n \in 0..MaxIdLen }

Routes == { <<"/">>, <<"/", ":">>, <<"/", "_">> }

Methods == { <<"G">>, <<":">>, <<"_">>, <<":", "G">> }

Triples == ClientIds \X Routes \X Methods

InitKey ==
    /\ args \in Triples \X Triples
    /\ ret = NotCalled
    /\ BackendIdle
    /\ MwIdle
    /\ CtxIdle
    /\ ETagIdle

KeyCall ==
    /\ ~ret.called
    /\ ret' = Returned(<<generate_rate_limit_key(args[1][1], args[1][2], args[1][3]),
                         generate_rate_limit_key(args[2][1], args[2][2], args[2][3])>>)
    /\ UNCHANGED <<args, backendVars, mwVars, ctxVars, etagVars>>

SpecKey == InitKey /\ [][KeyCall]_vars

(* C9: two (client_id, route, method) triples produce the same counting key
   if and only if the triples are equal. *)
C9_KeyUniqueness ==
    ret.called => ((ret.value[1] = ret.value[2]) <=> (args[1] = args[2]))

(* ================= get_rate_limit_policy on configurations ============= *)
DefaultLimit == 100
DefaultWindow == 60

OverridePolicies == { PolicyConfig(10, 50), PolicyConfig(5, 30) }

GET == <<"G", "E", "T">>
POST == <<"P", "O", "S", "T">>
PUT == <<"P", "U", "T">>

(* The method mappings over GET and POST, the empty one included. *)
MethodDicts ==
    UNION { [ms -> OverridePolicies] : ms \in SUBSET {GET, POST} }

RouteOverrides == OverridePolicies \cup { MethodPolicyDict(d) : d \in MethodDicts }

OverrideRoutes == { <<"/", "a">>, <<"/", "b">> }

PolicyRoutes == OverrideRoutes \cup { <<"/", "c">> }

PolicyOverrides == UNION { [rs -> RouteOverrides] : rs \in SUBSET OverrideRoutes }

PolicyOnlyConfig(overrides) ==
    [ default_limit |-> DefaultLimit, default_window |-> DefaultWindow,
      activation_header |-> <<"X", "-", "A">>, activation_query_param |-> None,
      whitelist |-> {}, policy_overrides |-> overrides ]

InitPolicy ==
    /\ \E route \in PolicyRoutes, method \in {GET, POST, PUT}, ov \in PolicyOverrides :
          args = [route |-> route, method |-> method, config |-> PolicyOnlyConfig(ov)]
    /\ ret = NotCalled
    /\ BackendIdle
    /\ MwIdle
    /\ CtxIdle
    /\ ETagIdle

PolicyCall ==
    /\ ~ret.called
    /\ ret' = Returned(get_rate_limit_policy(args.route, args.method, args.config))
    /\ UNCHANGED <<args, backendVars, mwVars, ctxVars, etagVars>>

SpecPolicy == InitPolicy /\ [][PolicyCall]_vars

HasOverride(route) == route \in DOMAIN args.config.policy_overrides

IsMethodDict(o) == o.kind = "methods"

(* C8: a method mapping that contains the request method decides; a single
   policy decides for every method; in every other case the default does. *)
C8_PolicyPrecedence ==
    ret.called =>
        LET ov == args.config.policy_overrides
            route == args.route
            method == args.method
        IN  /\ (HasOverride(route) /\ IsMethodDict(ov[route])
                  /\ method \in DOMAIN ov[route].methods)
               => ret.value = <<ov[route].methods[method].limit,
                                ov[route].methods[method].window>>
            /\ (HasOverride(route) /\ ~IsMethodDict(ov[route]))
               => ret.value = <<ov[route].limit, ov[route].window>>
            /\ (~HasOverride(route)
                  \/ (IsMethodDict(ov[route]) /\ method \notin DOMAIN ov[route].methods))
               => ret.value = <<DefaultLimit, DefaultWindow>>

(* GET on a route whose mapping only knows POST gets the default. *)
C8_Witness ==
    /\ ret.called
    /\ HasOverride(args.route)
    /\ IsMethodDict(args.config.policy_overrides[args.route])
    /\ DOMAIN args.config.policy_overrides[args.route].methods = {POST}
    /\ args.method = GET
    /\ ret.value = <<DefaultLimit, DefaultWindow>>

(* ================ is_rate_limiting_activated on requests =============== *)
ActivationHeaders == { None, <<>>, <<"X", "-", "A">> }
ActivationParams == { None, <<>>, <<"r", "l">> }

HeaderPairs ==
    { <<"x", "-", "a">>, <<"x", "-", "b">> }
        \X { <<"1">>, <<"o", "f", "f">>, <<"O", "f", "F">> }

HeaderLists == UNION { [1..n -> HeaderPairs] : n \in 0..MaxHeaders }

QueryStrings ==
    { <<>>,
      <<"r", "l", "=", "1">>,
      <<"r", "l", "=", "o", "f", "f">>,
      <<"r", "l", "=", "O", "F", "F">>,
      <<"r", "l", "=">>,
      <<"r", "l">>,
      <<"q", "=", "o", "f", "f">>,
      <<"r", "l", "=", "&", "r", "l", "=", "o", "f", "f">>,
      <<"r", "l", "=", "1", "&", "r", "l", "=", "o", "f", "f">>,
      <<"r", "l", "=", "o", "f", "f", "&", "r", "l", "=", "1">>,
      <<"q", "=", "1", "&", "r", "l", "=", "o", "f", "f">> }

(* config.py lines 39-46: what RateLimitConfig.__post_init__ accepts *)
RateLimitConfigValid(c) ==
    /\ c.default_limit > 0
    /\ c.default_window > 0
    /\ ~(c.activation_header = None /\ c.activation_query_param = None)

ActivationConfig(h, q) ==
    [ default_limit |-> DefaultLimit, default_window |-> DefaultWindow,
      activation_header |-> h, activation_query_param |-> q,
      whitelist |-> {}, policy_overrides |-> EmptyMap ]

InitActivation ==
    /\ \E h \in ActivationHeaders, q \in ActivationParams,
          hs \in HeaderLists, qs \in QueryStrings :
          /\ RateLimitConfigValid(ActivationConfig(h, q))
          /\ args = [scope |-> [type |-> "http", headers |-> hs, query_string |-> qs],
                     config |-> ActivationConfig(h, q)]
    /\ ret = NotCalled
    /\ BackendIdle
    /\ MwIdle
    /\ CtxIdle
    /\ ETagIdle

ActivationCall ==
    /\ ~ret.called
    /\ ret' = Returned(is_rate_limiting_activated(args.scope, args.config))
    /\ UNCHANGED <<args, backendVars, mwVars, ctxVars, etagVars>>

SpecActivation == InitActivation /\ [][ActivationCall]_vars

(* The configured activation header is in the request with a value other than "off". *)
HeaderActivates ==
    /\ Truthy(args.config.activation_header)
    /\ \E i \in DOMAIN args.scope.headers :
          /\ args.scope.headers[i][1] = Lower(args.config.activation_header)
          /\ \A j \in (i + 1)..Len(args.scope.headers) :
                args.scope.headers[j][1] # args.scope.headers[i][1]
          /\ Lower(args.scope.headers[i][2]) # OFF

(* The configured query parameter is in the request and its first non-blank
   value is "off" in some letter case. *)
ParamSaysOff ==
    /\ Truthy(args.config.activation_query_param)
    /\ LET ps == parse_qs(args.scope.query_string)
       IN  \E i \in DOMAIN ps :
              /\ ps[i][1] = args.config.activation_query_param
              /\ \A j \in 1..(i - 1) : ps[j][1] # ps[i][1]
              /\ Lower(ps[i][2]) = OFF

(* C10 as stated: a header that activates turns limiting on, whatever the
   query parameter carries. *)
C10_HeaderAlwaysActivates ==
    (ret.called /\ HeaderActivates) => ret.value = TRUE

(* C10, amended: a header that activates turns limiting on unless the
   configured query parameter is present with the value "off"; the query
   parameter is consulted also when the header is present. *)
C10_HeaderActivatesUnlessParamOff ==
    (ret.called /\ HeaderActivates) => (ret.value = ~ParamSaysOff)

C10_Witness ==
    /\ ret.called /\ HeaderActivates /\ ParamSaysOff /\ ret.value = FALSE
    /\ Len(args.scope.headers) = 2

(* ================== RateLimitingMiddleware.__call__ ==================== *)
X_RATELIMIT_LIMIT ==
    <<"x", "-", "r", "a", "t", "e", "l", "i", "m", "i", "t", "-", "l", "i", "m", "i", "t">>
X_RATELIMIT_REMAINING ==
    <<"x", "-", "r", "a", "t", "e", "l", "i", "m", "i", "t", "-",
      "r", "e", "m", "a", "i", "n", "i", "n", "g">>
X_RATELIMIT_RESET ==
    <<"x", "-", "r", "a", "t", "e", "l", "i", "m", "i", "t", "-", "r", "e", "s", "e", "t">>
RETRY_AFTER == <<"r", "e", "t", "r", "y", "-", "a", "f", "t", "e", "r">>
CONTENT_TYPE == <<"c", "o", "n", "t", "e", "n", "t", "-", "t", "y", "p", "e">>
CONTENT_LENGTH ==
    <<"c", "o", "n", "t", "e", "n", "t", "-", "l", "e", "n", "g", "t", "h">>
TEXT_PLAIN == <<"t", "e", "x", "t", "/", "p", "l", "a", "i", "n">>

StartMessage(status, headers) ==
    [type |-> "http.response.start", status |-> status, headers |-> headers]

BodyMessage(body) == [type |-> "http.response.body", body |-> body]

(* line 86: b"Too Many Requests" *)
TOO_MANY_REQUESTS ==
    <<"T", "o", "o", " ", "M", "a", "n", "y", " ",
      "R", "e", "q", "u", "e", "s", "t", "s">>

(* _send_rate_limit_response that sends the body before the start message. *)
_send_rate_limit_response_body_first(limit, remaining, reset, time) ==
    << BodyMessage(TOO_MANY_REQUESTS),
       StartMessage(429, << <<CONTENT_TYPE, TEXT_PLAIN>>,
                            <<CONTENT_LENGTH, <<"1", "7">> >>,
                            <<X_RATELIMIT_LIMIT, Str(limit)>>,
                            <<X_RATELIMIT_REMAINING, Str(remaining)>>,
                            <<X_RATELIMIT_RESET, Str(reset)>> >>) >>

(* _send_rate_limit_response without the max(0, ...). *)
_send_rate_limit_response_no_clamp(limit, remaining, reset, time) ==
    LET headers == << <<CONTENT_TYPE, TEXT_PLAIN>>,
                      <<CONTENT_LENGTH, <<"1", "7">> >>,
                      <<X_RATELIMIT_LIMIT, Str(limit)>>,
                      <<X_RATELIMIT_REMAINING, Str(remaining)>>,
                      <<X_RATELIMIT_RESET, Str(reset)>> >>
    IN  << StartMessage(429, IF reset # 0
                             THEN Append(headers, <<RETRY_AFTER, Str(reset - time)>>)
                             ELSE headers),
           BodyMessage(TOO_MANY_REQUESTS) >>

(* lines 53-88: the two messages of the 429 response; reset is already rounded *)
_send_rate_limit_response(limit, remaining, reset, time) ==
    LET headers == << <<CONTENT_TYPE, TEXT_PLAIN>>,
                      <<CONTENT_LENGTH, <<"1", "7">> >>,
                      <<X_RATELIMIT_LIMIT, Str(limit)>>,
                      <<X_RATELIMIT_REMAINING, Str(remaining)>>,
                      <<X_RATELIMIT_RESET, Str(reset)>> >>
        retry_after == Max(0, reset - time)
    IN  << StartMessage(429, IF reset # 0
                             THEN Append(headers, <<RETRY_AFTER, Str(retry_after)>>)
                             ELSE headers),
           BodyMessage(TOO_MANY_REQUESTS) >>

(* send_with_headers that puts the three headers in front of the handler's. *)
send_with_headers_prepend(message, limit, result) ==
    IF message.type = "http.response.start"
    THEN [message EXCEPT !.headers =
             << <<X_RATELIMIT_LIMIT, Str(limit)>>,
                <<X_RATELIMIT_REMAINING, Str(result.remaining)>>,
                <<X_RATELIMIT_RESET, Str(result.reset)>> >> \o @]
    ELSE message

(* lines 133-147: what send_with_headers passes to send *)
send_with_headers(message, limit, result) ==
    IF message.type = "http.response.start"
    THEN [message EXCEPT !.headers = @ \o
             << <<X_RATELIMIT_LIMIT, Str(limit)>>,
                <<X_RATELIMIT_REMAINING, Str(result.remaining)>>,
                <<X_RATELIMIT_RESET, Str(result.reset)>> >>]
    ELSE message

NoResult == [allowed |-> FALSE, remaining |-> -1, reset |-> -1, count |-> 0, win |-> -1]

(* One __call__ invocation: pc is the await it stands at, sent what reached the
   caller's send, response what the downstream handler passed to its send. *)
NewRequest(scope) ==
    [ scope |-> scope, pc |-> "call", client_id |-> None, limit |-> 0, window |-> 0,
      key |-> <<>>, result |-> NoResult, send |-> "none", app_calls |-> 0, sent |-> <<>>,
      response |-> <<>> ]

(* EnterApp that invokes the downstream handler a second time. *)
EnterAppTwice(r, send) == [r EXCEPT !.pc = "app", !.send = send, !.app_calls = @ + 2]

(* await self.app(scope, receive, send): the downstream handler is entered. *)
EnterApp(r, send) == [r EXCEPT !.pc = "app", !.send = send, !.app_calls = @ + 1]

(* The requests the clients send. *)
MwHeaderOn == << << <<"x", "-", "a">>, <<"1">> >> >>

MwHeaderOff == << << <<"x", "-", "a">>, <<"O", "f", "F">> >> >>

(* The header sent twice: dict() keeps the last value. *)
MwHeaderOnThenOff ==
    << << <<"x", "-", "a">>, <<"1">> >>, << <<"x", "-", "a">>, <<"o", "f", "f">> >> >>

HttpScope(method, path, headers, query_string) ==
    [type |-> "http", method |-> method, path |-> path, headers |-> headers,
     query_string |-> query_string]

MwScopes ==
    { HttpScope(GET, <<"/", "a">>, MwHeaderOn, <<>>),
      HttpScope(POST, <<"/", "b">>, MwHeaderOn, <<>>),
      HttpScope(GET, <<"/", "a">>, MwHeaderOn, <<"r", "l", "=", "o", "f", "f">>),
      HttpScope(GET, <<"/", "a">>, <<>>, <<>>),
      HttpScope(GET, <<"/", "a">>, MwHeaderOff, <<"r", "l", "=", "1">>),
      HttpScope(GET, <<"/", "a">>, MwHeaderOnThenOff, <<>>),
      HttpScope(GET, <<"/", "a">>, <<>>, <<"r", "l", "=", "O", "F", "F">>),
      [type |-> "websocket", method |-> GET, path |-> <<"/", "a">>, headers |-> MwHeaderOn,
       query_string |-> <<>>] }

(* The identities the extractor returns; "v" is whitelisted. *)
MwIdents == { <<"u", ":">>, <<"u", "_">>, <<"v">> }

MwConfig(default_limit) ==
    [ default_limit |-> default_limit, default_window |-> 2,
      activation_header |-> <<"X", "-", "A">>, activation_query_param |-> <<"r", "l">>,
      whitelist |-> { <<"v">> },
      policy_overrides |-> [route \in { <<"/", "b">> } |->
          MethodPolicyDict([m \in {POST} |-> PolicyConfig(1, 3)])] ]

(* The downstream handler: its response is decided by the request. *)
app(scope) ==
    IF scope.method = POST
    THEN << StartMessage(200, <<>>), BodyMessage(<<"o", "k">>) >>
    ELSE << StartMessage(200, << <<CONTENT_TYPE, TEXT_PLAIN>> >>),
            BodyMessage(<<"o">>), BodyMessage(<<"k">>) >>

(* inc that leaves the counter as it is. *)
inc_noop(counter) == counter

(* inc that counts twice. *)
inc_twice(counter) == counter + 2

(* Counter.inc() *)
inc(counter) == counter + 1

(* Whitelisted that knows no exempt client. *)
WhitelistedNever(client_id, config) == FALSE

(* line 104: client_id in self.config.whitelist *)
Whitelisted(client_id, config) == client_id \in config.whitelist

(* Raised that swallows the exception and lets the request through. *)
RaisedFailOpen(r) == EnterApp(r, "original")

(* line 113 raising: __call__ is left by the exception, nothing else is done *)
Raised(r) == [r EXCEPT !.pc = "raised"]

(* IsHttp that takes every scope for an HTTP request. *)
IsHttpAlways(scope) == TRUE

(* line 91: scope["type"] == "http" *)
IsHttp(scope) == scope.type = "http"

(* lines 90-100: __call__ up to its first await *)
MwCall(scope) ==
    /\ Len(reqs) < MaxRequests
    /\ LET r == NewRequest(scope)
       IN  IF ~IsHttp(scope)
           THEN /\ reqs' = Append(reqs, EnterApp(r, "original"))
                /\ UNCHANGED total_requests
           ELSE IF ~is_rate_limiting_activated(scope, self_config)
           THEN /\ reqs' = Append(reqs, EnterApp(r, "original"))
                /\ UNCHANGED total_requests
           ELSE /\ reqs' = Append(reqs, [r EXCEPT !.pc = "identity"])
                /\ total_requests' = inc(total_requests)
    /\ UNCHANGED <<self_config, rate_limited_requests, warnings, backendVars, pureVars, ctxVars, etagVars>>

(* lines 102-113: the extractor returns; whitelist, policy, key; hit is awaited *)
MwIdentity(i, client_id) ==
    /\ reqs[i].pc = "identity"
    /\ LET r == reqs[i]
           route == r.scope.path
           method == r.scope.method
           policy == get_rate_limit_policy(route, method, self_config)
       IN  reqs' = [reqs EXCEPT ![i] =
               IF Whitelisted(client_id, self_config)
               THEN EnterApp([r EXCEPT !.client_id = client_id], "original")
               ELSE [r EXCEPT !.client_id = client_id,
                              !.limit = policy[1], !.window = policy[2],
                              !.key = generate_rate_limit_key(client_id, route, method),
                              !.pc = "hit"]]
    /\ UNCHANGED <<self_config, total_requests, rate_limited_requests, warnings,
                   backendVars, pureVars, ctxVars, etagVars>>

(* line 113 with InMemoryBackend.hit, then lines 115-149 up to the next await:
   a rejection logs, counts and sends the first message of the 429 response *)
MwHit(i) ==
    /\ backend = "inmemory"
    /\ reqs[i].pc = "hit"
    /\ LET r == reqs[i]
           cs == InMemoryCounters(counters, r.key, r.window, now)
           e == cs[<<r.key, r.window>>]
           remaining == Remaining(e.count, r.limit)
           result == [allowed |-> Allowed(e.count, r.limit), remaining |-> remaining,
                      reset |-> InMemoryReset(e.window_start_time, r.window),
                      count |-> e.count, win |-> e.window_start_time]
       IN  /\ RateLimitResultValid(remaining)
           /\ counters' = cs
           /\ calls' = Append(calls,
                  [CountedCall(r.key, r.limit, r.window, now, e.count,
                               e.window_start_time, "done") EXCEPT
                      !.allowed = result.allowed,
                      !.remaining = result.remaining,
                      !.reset = result.reset])
           /\ IF ~result.allowed
              THEN /\ warnings' = Append(warnings,
                         [client_id |-> r.client_id, method |-> r.scope.method,
                          route |-> r.scope.path, limit |-> r.limit, window |-> r.window])
                   /\ rate_limited_requests' = inc(rate_limited_requests)
                   /\ reqs' = [reqs EXCEPT ![i] =
                         [r EXCEPT !.result = result, !.pc = "send_body",
                                   !.sent = << _send_rate_limit_response(
                                       r.limit, result.remaining, result.reset, now)[1] >>]]
              ELSE /\ reqs' = [reqs EXCEPT ![i] =
                         EnterApp([r EXCEPT !.result = result], "wrapped")]
                   /\ UNCHANGED <<warnings, rate_limited_requests>>
    /\ UNCHANGED <<self_config, total_requests, now, backend, hit_limit, store, started,
                   pureVars, ctxVars, etagVars>>

(* lines 83-88: the second message of the 429 response; __call__ returns *)
MwSendBody(i) ==
    /\ reqs[i].pc = "send_body"
    /\ LET r == reqs[i]
       IN  reqs' = [reqs EXCEPT ![i] =
               [r EXCEPT !.pc = "done",
                         !.sent = Append(@, _send_rate_limit_response(
                             r.limit, r.result.remaining, r.result.reset, now)[2])]]
    /\ UNCHANGED <<self_config, total_requests, rate_limited_requests, warnings,
                   backendVars, pureVars, ctxVars, etagVars>>

(* line 113 when backend.hit raises (the store cannot be reached): no handler
   encloses the await, so the exception leaves __call__ *)
MwHitRaises(i) ==
    /\ backend = "unavailable"
    /\ reqs[i].pc = "hit"
    /\ LET r == reqs[i]
       IN  /\ calls' = Append(calls,
                  CountedCall(r.key, r.limit, r.window, now, 0, -1, "raised"))
           /\ reqs' = [reqs EXCEPT ![i] = Raised(r)]
    /\ UNCHANGED <<self_config, total_requests, rate_limited_requests, warnings,
                   now, backend, hit_limit, counters, store, started, pureVars, ctxVars, etagVars>>

(* The downstream handler sends its response through the send it was given. *)
MwApp(i) ==
    /\ reqs[i].pc = "app"
    /\ LET r == reqs[i]
           response == app(r.scope)
           out == [k \in DOMAIN response |->
                     IF r.send = "wrapped"
                     THEN send_with_headers(response[k], r.limit, r.result)
                     ELSE response[k]]
       IN  reqs' = [reqs EXCEPT ![i] =
               [r EXCEPT !.pc = "done", !.sent = @ \o out, !.response = response]]
    /\ UNCHANGED <<self_config, total_requests, rate_limited_requests, warnings,
                   backendVars, pureVars, ctxVars, etagVars>>

(* One second passes while requests are in flight. *)
MwTick ==
    /\ now < MaxMwTime
    /\ now' = now + 1
    /\ UNCHANGED <<backend, hit_limit, counters, store, started, calls, pureVars, ctxVars, etagVars, mwVars>>

InitMw ==
    /\ now = 0
    /\ backend \in {"inmemory", "unavailable"}
    /\ hit_limit = 1
    /\ counters = EmptyMap
    /\ store = EmptyMap
    /\ started = <<>>
    /\ calls = <<>>
    /\ PureIdle
    /\ self_config \in { MwConfig(l) : l \in Limits }
    /\ reqs = <<>>
    /\ total_requests = 0
    /\ rate_limited_requests = 0
    /\ warnings = <<>>
    /\ CtxIdle
    /\ ETagIdle

NextMw ==
    \/ \E scope \in MwScopes : MwCall(scope)
    \/ \E i \in DOMAIN reqs, client_id \in MwIdents : MwIdentity(i, client_id)
    \/ \E i \in DOMAIN reqs : MwHit(i)
    \/ \E i \in DOMAIN reqs : MwHitRaises(i)
    \/ \E i \in DOMAIN reqs : MwSendBody(i)
    \/ \E i \in DOMAIN reqs : MwApp(i)
    \/ MwTick

SpecMw == InitMw /\ [][NextMw]_vars

(* ================== properties of the middleware ======================= *)
Min(a, b) == IF a <= b THEN a ELSE b

(* The requests whose backend hit has returned. *)
HitReqs == {i \in DOMAIN reqs : reqs[i].result # NoResult}

(* The requests counted in the same window of the same (key, window) as i. *)
WindowGroup(i) ==
    {j \in HitReqs :
        /\ reqs[j].key = reqs[i].key
        /\ reqs[j].window = reqs[i].window
        /\ reqs[j].result.win = reqs[i].result.win}

(* C5: in-process backend, hits issued by concurrently handled requests: the N
   hits of one (key, window) inside one window got the counts 1..N, the stored
   count is N and exactly min(N, limit) of them are allowed. *)
C5_NoLostIncrement ==
    \A i \in HitReqs :
        LET G == WindowGroup(i)
            N == Cardinality(G)
            wk == <<reqs[i].key, reqs[i].window>>
        IN  /\ {reqs[j].result.count : j \in G} = 1..N
            /\ Cardinality({j \in G : reqs[j].result.allowed}) = Min(N, reqs[i].limit)
            /\ (wk \in DOMAIN counters
                  /\ counters[wk].window_start_time = reqs[i].result.win)
               => counters[wk].count = N

(* Two requests in flight together, the later arrival counted first, the limit exceeded. *)
C5_Witness ==
    \E i, j \in HitReqs :
        /\ i < j /\ j \in WindowGroup(i)
        /\ reqs[j].result.count = 1 /\ reqs[i].result.count = 2
        /\ reqs[i].limit = 1 /\ ~reqs[i].result.allowed
        /\ counters[<<reqs[i].key, reqs[i].window>>].count = 2

Is429(sent) ==
    /\ Len(sent) = 2
    /\ sent[1].type = "http.response.start" /\ sent[1].status = 429
    /\ sent[2].type = "http.response.body"

(* The 429 response has begun. *)
Is429Start(sent) ==
    /\ Len(sent) >= 1
    /\ sent[1].type = "http.response.start" /\ sent[1].status = 429

(* C6: of the activated, non-whitelisted requests counted in one window of one
   key at most `limit` enter the downstream handler; each of the others gets
   the 429 response and never enters it. *)
C6_AtMostLimitForwarded ==
    \A i \in HitReqs :
        LET G == WindowGroup(i)
        IN  /\ Cardinality({j \in G : reqs[j].app_calls > 0}) <= reqs[i].limit
            /\ \A j \in G : reqs[j].app_calls <= 1
            /\ \A j \in G : reqs[j].app_calls = 0 =>
                  /\ Is429Start(reqs[j].sent)
                  /\ reqs[j].pc = "done" => Is429(reqs[j].sent)

(* Two clients whose identities collide on one key: one forwarded, one rejected. *)
C6_Witness ==
    \E i, j \in HitReqs :
        /\ i < j /\ j \in WindowGroup(i)
        /\ reqs[i].client_id # reqs[j].client_id
        /\ reqs[i].limit = 1
        /\ reqs[j].app_calls = 1 /\ reqs[i].app_calls = 0 /\ Is429(reqs[i].sent)

(* ------------- which requests carry which activation signal ------------ *)
(* The activation header and query parameter every MwConfig names. *)
SignalHeader == Lower(MwConfig(1).activation_header)
SignalParam == MwConfig(1).activation_query_param

(* The positions of the activation header in the request. *)
SignalHeaderAt(scope) ==
    {k \in DOMAIN scope.headers : scope.headers[k][1] = SignalHeader}

(* The header is in the request and the value an ASGI server's dict() keeps
   for it is "off" in some letter case. *)
ScopeHeaderIsOff(scope) ==
    \E k \in SignalHeaderAt(scope) :
        /\ \A m \in SignalHeaderAt(scope) : m <= k
        /\ Lower(scope.headers[k][2]) = OFF

(* The name=value fields of the query string that name the activation parameter. *)
SignalParamAt(scope) ==
    LET fields == Split(scope.query_string, "&")
    IN  {k \in DOMAIN fields :
            /\ Len(fields[k]) > Len(SignalParam)
            /\ SubSeq(fields[k], 1, Len(SignalParam) + 1) = SignalParam \o <<"=">>}

ScopeParamIsOff(scope) ==
    LET fields == Split(scope.query_string, "&")
    IN  \E k \in SignalParamAt(scope) :
            /\ \A m \in SignalParamAt(scope) : k <= m
            /\ Lower(SubSeq(fields[k], Len(SignalParam) + 2, Len(fields[k]))) = OFF

(* The requests that opt out explicitly. *)
OptOutScopes ==
    {scope \in MwScopes :
        /\ scope.type = "http"
        /\ \/ ScopeHeaderIsOff(scope)
           \/ SignalHeaderAt(scope) = {} /\ ScopeParamIsOff(scope)}

(* The requests that carry neither activation signal. *)
NoSignalScopes ==
    {scope \in MwScopes :
        /\ scope.type = "http"
        /\ SignalHeaderAt(scope) = {}
        /\ SignalParamAt(scope) = {}}

(* The requests whose signal turns rate limiting on (see C10, C11). *)
TurnsOnScopes ==
    {scope \in MwScopes :
        /\ scope.type = "http"
        /\ scope \notin NoSignalScopes
        /\ ~ScopeHeaderIsOff(scope)
        /\ ~ScopeParamIsOff(scope)}

(* The request went to the downstream handler untouched: the original send, no
   identity, no policy, no key, no hit; what the handler sent is what came out. *)
Bypassed(r) ==
    /\ r.pc \in {"app", "done"}
    /\ r.send = "original" /\ r.app_calls = 1
    /\ r.client_id = None /\ r.limit = 0 /\ r.window = 0 /\ r.key = <<>>
    /\ r.result = NoResult
    /\ r.sent = r.response
    /\ r.pc = "done" => r.sent = app(r.scope)

(* The request opts out explicitly. *)
OptsOut(scope) == scope \in OptOutScopes

(* C11: a request whose activation header is "off" in any letter case bypasses
   rate limiting whatever its query string carries, and so does one without
   the header whose activation query parameter is "off": it is forwarded
   downstream and no backend hit is made for it. *)
C11_ExplicitOptOut ==
    /\ \A i \in DOMAIN reqs : OptsOut(reqs[i].scope) => Bypassed(reqs[i])
    /\ Len(calls) <= Cardinality({i \in DOMAIN reqs : ~OptsOut(reqs[i].scope)})

(* A header "OfF" next to rl=1, and rl=OFF without the header, both forwarded. *)
C11_Witness ==
    \E i, j \in DOMAIN reqs :
        /\ reqs[i].scope.headers = MwHeaderOff
        /\ reqs[i].scope.query_string = <<"r", "l", "=", "1">>
        /\ reqs[j].scope.headers = <<>>
        /\ reqs[j].scope.query_string = <<"r", "l", "=", "O", "F", "F">>
        /\ reqs[i].pc = "done" /\ reqs[j].pc = "done"
        /\ Bypassed(reqs[i]) /\ Bypassed(reqs[j])
        /\ calls = <<>>

(* The request carries neither activation signal. *)
NoSignal(scope) == scope \in NoSignalScopes

HeaderNames(message) == {message.headers[k][1] : k \in DOMAIN message.headers}

RateLimitHeaderNames == {X_RATELIMIT_LIMIT, X_RATELIMIT_REMAINING, X_RATELIMIT_RESET}

(* C12: an HTTP request with neither the activation header nor the activation
   query parameter goes to the downstream handler with the original send; no
   identity is extracted, no metric incremented, no backend hit made for it
   and its response gets no rate-limit header. *)
C12_DefaultOpen ==
    /\ \A i \in DOMAIN reqs :
          NoSignal(reqs[i].scope) =>
              /\ Bypassed(reqs[i])
              /\ \A k \in DOMAIN reqs[i].sent :
                    reqs[i].sent[k].type = "http.response.start"
                        => HeaderNames(reqs[i].sent[k]) \cap RateLimitHeaderNames = {}
    /\ LET others == Cardinality({i \in DOMAIN reqs : ~NoSignal(reqs[i].scope)})
       IN  /\ total_requests <= others
           /\ rate_limited_requests <= others
           /\ Len(calls) <= others
           /\ others = 0 => counters = EmptyMap

(* Two requests without a signal answered by the handler, nothing counted. *)
C12_Witness ==
    /\ Len(reqs) = MaxRequests
    /\ \A i \in DOMAIN reqs :
          /\ NoSignal(reqs[i].scope) /\ reqs[i].pc = "done"
          /\ Len(reqs[i].sent) = 3
    /\ total_requests = 0 /\ calls = <<>>

(* The requests for which backend.hit has been called. *)
HitCalled(i) ==
    /\ reqs[i].client_id # None
    /\ reqs[i].client_id \notin self_config.whitelist
    /\ reqs[i].pc # "hit"

(* Every request has run to its end. *)
AllSettled == \A i \in DOMAIN reqs : reqs[i].pc \in {"done", "raised"}

(* The signal of the request turns rate limiting on. *)
TurnsOn(scope) == scope \in TurnsOnScopes

(* C13: a request whose identity is whitelisted goes to the downstream handler
   with the original send, no policy is resolved and no backend hit made for
   it; the number of backend hits is the number of activated HTTP requests
   whose identity is not whitelisted. *)
C13_WhitelistBypass ==
    /\ \A i \in DOMAIN reqs :
          reqs[i].client_id \in self_config.whitelist =>
              /\ reqs[i].pc \in {"app", "done"}
              /\ reqs[i].send = "original" /\ reqs[i].app_calls = 1
              /\ reqs[i].limit = 0 /\ reqs[i].window = 0 /\ reqs[i].key = <<>>
              /\ reqs[i].result = NoResult
              /\ reqs[i].sent = reqs[i].response
              /\ reqs[i].pc = "done" => reqs[i].sent = app(reqs[i].scope)
    /\ Len(calls) = Cardinality({i \in DOMAIN reqs : HitCalled(i)})
    /\ AllSettled =>
          Len(calls) = Cardinality({i \in DOMAIN reqs :
              TurnsOn(reqs[i].scope) /\ reqs[i].client_id \notin self_config.whitelist})

(* One whitelisted and one other client, both activated: one hit. *)
C13_Witness ==
    /\ AllSettled
    /\ \E i, j \in DOMAIN reqs :
          /\ reqs[i].client_id \in self_config.whitelist
          /\ reqs[i].sent = app(reqs[i].scope)
          /\ reqs[j].client_id # None /\ reqs[j].client_id \notin self_config.whitelist
          /\ reqs[j].result # NoResult
    /\ Len(calls) = 1 /\ total_requests = 2

(* The backend answered the request's hit with allowed = false. *)
Rejected(i) == reqs[i].result # NoResult /\ ~reqs[i].result.allowed

(* The backend answered the request's hit with allowed = true. *)
Admitted(i) == reqs[i].result # NoResult /\ reqs[i].result.allowed

(* C14: for a request whose hit is not allowed the downstream handler is never
   entered and the middleware sends exactly two messages, in this order:
   http.response.start with status 429 and the headers content-type:
   text/plain, content-length: 17, x-ratelimit-limit, x-ratelimit-remaining,
   x-ratelimit-reset; then http.response.body with "Too Many Requests". *)
C14_RejectionResponse ==
    \A i \in DOMAIN reqs :
        Rejected(i) =>
            LET r == reqs[i]
            IN  /\ r.app_calls = 0 /\ r.send = "none" /\ r.response = <<>>
                /\ r.pc \in {"send_body", "done"}
                /\ Len(r.sent) = IF r.pc = "done" THEN 2 ELSE 1
                /\ r.sent[1].type = "http.response.start"
                /\ r.sent[1].status = 429
                /\ Len(r.sent[1].headers) >= 5
                /\ SubSeq(r.sent[1].headers, 1, 5) =
                      << <<CONTENT_TYPE, TEXT_PLAIN>>,
                         <<CONTENT_LENGTH, <<"1", "7">> >>,
                         <<X_RATELIMIT_LIMIT, Str(r.limit)>>,
                         <<X_RATELIMIT_REMAINING, Str(r.result.remaining)>>,
                         <<X_RATELIMIT_RESET, Str(r.result.reset)>> >>
                /\ r.pc = "done" =>
                      /\ r.sent[2] = [type |-> "http.response.body",
                                      body |-> TOO_MANY_REQUESTS]
                      /\ Str(Len(r.sent[2].body)) = r.sent[1].headers[2][2]

(* A rejected request has sent both messages while the request admitted
   before it is still inside the downstream handler. *)
C14_Witness ==
    \E i, j \in DOMAIN reqs :
        /\ Rejected(i) /\ reqs[i].pc = "done" /\ reqs[i].app_calls = 0
        /\ Len(reqs[i].sent) = 2 /\ reqs[i].sent[1].status = 429
        /\ reqs[i].sent[2].body = TOO_MANY_REQUESTS
        /\ Admitted(j) /\ reqs[j].pc = "app"

(* The three headers send_with_headers adds, by name. *)
AddedNames == <<X_RATELIMIT_LIMIT, X_RATELIMIT_REMAINING, X_RATELIMIT_RESET>>

(* C15: for a request whose hit is allowed the downstream handler is entered
   exactly once; each http.response.start it sends comes out with its own
   headers in their order followed by exactly x-ratelimit-limit,
   x-ratelimit-remaining, x-ratelimit-reset; each other message comes out
   unchanged. *)
C15_AllowedResponse ==
    \A i \in DOMAIN reqs :
        Admitted(i) =>
            LET r == reqs[i]
            IN  /\ r.app_calls = 1 /\ r.send = "wrapped"
                /\ r.pc \in {"app", "done"}
                /\ Len(r.sent) = Len(r.response)
                /\ r.pc = "done" => r.response = app(r.scope)
                /\ \A k \in DOMAIN r.response :
                      LET in == r.response[k]
                          out == r.sent[k]
                          n == Len(in.headers)
                      IN  IF in.type = "http.response.start"
                          THEN /\ out.type = in.type /\ out.status = in.status
                               /\ Len(out.headers) = n + 3
                               /\ SubSeq(out.headers, 1, n) = in.headers
                               /\ \A h \in 1..3 : out.headers[n + h][1] = AddedNames[h]
                               /\ out.headers[n + 1][2] = Str(r.limit)
                               /\ out.headers[n + 2][2] = Str(r.result.remaining)
                               /\ out.headers[n + 3][2] = Str(r.result.reset)
                          ELSE out = in

(* A response whose start message has a header of its own and one that has
   none, both forwarded. *)
C15_Witness ==
    \E i, j \in DOMAIN reqs :
        /\ Admitted(i) /\ reqs[i].pc = "done"
        /\ Len(reqs[i].response[1].headers) = 1 /\ Len(reqs[i].sent[1].headers) = 4
        /\ Len(reqs[i].sent) = 3
        /\ Admitted(j) /\ reqs[j].pc = "done"
        /\ Len(reqs[j].response[1].headers) = 0 /\ Len(reqs[j].sent[1].headers) = 3

(* C17 as stated: once every request has ended, the "total requests" metric is
   the number of hit() calls the middleware has issued. *)
C17_TotalCountsHits ==
    AllSettled => total_requests = Len(calls)

(* C17, amended: the "total requests" metric counts the activated HTTP
   requests: it is incremented right after the activation check, before the
   identity is extracted and the whitelist consulted, so it exceeds the number
   of hit() calls by the requests that are whitelisted or still on their way
   to the hit. *)
C17_TotalCountsActivated ==
    /\ total_requests = Cardinality({i \in DOMAIN reqs : TurnsOn(reqs[i].scope)})
    /\ total_requests = Len(calls) + Cardinality({i \in DOMAIN reqs :
          \/ reqs[i].pc \in {"identity", "hit"}
          \/ reqs[i].client_id \in self_config.whitelist})

(* Two activated requests of a whitelisted client: counted twice, no hit. *)
C17_Witness ==
    /\ AllSettled
    /\ Len(reqs) = 2
    /\ \A i \in DOMAIN reqs : reqs[i].client_id \in self_config.whitelist
    /\ total_requests = 2 /\ calls = <<>>

(* C18: the "rate limited requests" metric is the number of 429 responses
   begun, the number of warnings logged and the number of rejected hits; every
   warning names a rejected request; the metric never exceeds "total
   requests". *)
C18_RejectionsCounted ==
    /\ rate_limited_requests = Cardinality({i \in DOMAIN reqs : Is429Start(reqs[i].sent)})
    /\ rate_limited_requests = Len(warnings)
    /\ rate_limited_requests = Cardinality({i \in DOMAIN reqs : Rejected(i)})
    /\ rate_limited_requests = Cardinality({k \in DOMAIN calls :
                                   calls[k].pc = "done" /\ ~calls[k].allowed})
    /\ \A k \in DOMAIN warnings :
          \E i \in DOMAIN reqs :
             /\ Rejected(i)
             /\ warnings[k] = [client_id |-> reqs[i].client_id,
                               method |-> reqs[i].scope.method,
                               route |-> reqs[i].scope.path,
                               limit |-> reqs[i].limit, window |-> reqs[i].window]
    /\ \A i \in DOMAIN reqs : Is429Start(reqs[i].sent) => Rejected(i)
    /\ rate_limited_requests <= total_requests

(* One request admitted and answered, the next rejected. *)
C18_Witness ==
    /\ AllSettled
    /\ rate_limited_requests = 1 /\ Len(warnings) = 1 /\ total_requests = 2
    /\ \E i, j \in DOMAIN reqs :
          /\ Admitted(i) /\ Len(reqs[i].sent) = 2
          /\ Rejected(j) /\ Is429(reqs[j].sent)

(* C19: when backend.hit raises, the exception leaves __call__: the downstream
   handler is not entered, nothing is sent, the rate-limited metric is not
   incremented and no rejection is logged. *)
C19_BackendFailurePropagates ==
    /\ \A i \in DOMAIN reqs :
          reqs[i].pc = "raised" =>
              /\ reqs[i].app_calls = 0 /\ reqs[i].send = "none"
              /\ reqs[i].sent = <<>> /\ reqs[i].response = <<>>
              /\ reqs[i].result = NoResult
    /\ Cardinality({k \in DOMAIN calls : calls[k].pc = "raised"})
          = Cardinality({i \in DOMAIN reqs : reqs[i].pc = "raised"})
    /\ rate_limited_requests =
          Cardinality({k \in DOMAIN calls : calls[k].pc = "done" /\ ~calls[k].allowed})
    /\ Len(warnings) = rate_limited_requests
    /\ backend = "unavailable" =>
          /\ rate_limited_requests = 0 /\ warnings = <<>>
          /\ \A i \in DOMAIN reqs :
                (reqs[i].client_id # None /\ reqs[i].client_id \notin self_config.whitelist)
                    => reqs[i].pc \in {"hit", "raised"}

(* Two hits have raised; both requests were counted as total requests. *)
C19_Witness ==
    /\ backend = "unavailable"
    /\ Len(reqs) = 2
    /\ \A i \in DOMAIN reqs : reqs[i].pc = "raised"
    /\ Len(calls) = 2 /\ total_requests = 2

(* ============ _send_rate_limit_response on results and clocks ========== *)
(* round(x) for x given in half seconds: a tie goes to the even integer. *)
Round(halves) ==
    LET floor == halves \div 2
    IN  IF halves % 2 = 0 THEN floor
        ELSE IF floor % 2 = 0 THEN floor
        ELSE floor + 1

(* RateLimitResult.reset in half seconds, from before the epoch to after the
   last clock reading. *)
ResetHalves == (0 - 3)..(2 * MaxTime + 3)

InitRetryAfter ==
    /\ \E limit \in Limits, remaining \in 0..1, reset \in ResetHalves, time \in 0..MaxTime :
          args = [limit |-> limit, remaining |-> remaining, reset |-> reset, time |-> time]
    /\ ret = NotCalled
    /\ BackendIdle
    /\ MwIdle
    /\ CtxIdle
    /\ ETagIdle

(* line 128-130: round(rate_limit_result.reset) is passed, the clock is read inside *)
RetryAfterCall ==
    /\ ~ret.called
    /\ ret' = Returned(_send_rate_limit_response(
                  args.limit, args.remaining, Round(args.reset), args.time))
    /\ UNCHANGED <<args, backendVars, mwVars, ctxVars, etagVars>>

SpecRetryAfter == InitRetryAfter /\ [][RetryAfterCall]_vars

(* The positions of the retry-after header in the 429 start message. *)
RetryAfterAt == {k \in DOMAIN ret.value[1].headers : ret.value[1].headers[k][1] = RETRY_AFTER}

(* The reset the result carries, to the nearest second, ties to the nearer second. *)
NearestSeconds == {n \in (0 - 2)..(MaxTime + 2) : 2 * n - args.reset \in (0 - 1)..1}

(* C16: the 429 response of a result whose reset is known (not 0 once rounded
   to seconds) has exactly one retry-after header; its value is the whole
   number of seconds from now to reset, never negative and 0 when reset is
   not after now. A reset of 0 counts as unknown: no retry-after header. *)
C16_RetryAfter ==
    ret.called =>
        LET headers == ret.value[1].headers
            reset == Round(args.reset)
        IN  /\ reset \in NearestSeconds
            /\ reset # 0 =>
                  /\ RetryAfterAt = {Len(headers)}
                  /\ \E seconds \in 0..(MaxTime + 2) :
                        /\ headers[Len(headers)][2] = Str(seconds)
                        /\ seconds = IF reset > args.time THEN reset - args.time ELSE 0
                  /\ reset <= args.time => headers[Len(headers)][2] = <<"0">>
            /\ reset = 0 => RetryAfterAt = {}

(* A reset one and a half seconds before now: retry-after is 0. *)
C16_Witness ==
    /\ ret.called
    /\ args.reset = 3 /\ args.time = 3
    /\ RetryAfterAt = {6}
    /\ ret.value[1].headers[6] = <<RETRY_AFTER, <<"0">> >>

(* ============ construction of PolicyConfig and RateLimitConfig ========= *)
MaxConfigInt == 2

(* The integers a configuration is built from, non-positive ones included. *)
ConfigInts == (0 - 1)..MaxConfigInt

ValueError == [kind |-> "ValueError"]

(* PolicyConfig(limit, window): __post_init__ raises or the object exists *)
NewPolicyConfig(limit, window) ==
    IF PolicyConfigValid(limit, window) THEN PolicyConfig(limit, window) ELSE ValueError

(* RateLimitConfig(...): __post_init__ raises or the object exists *)
NewRateLimitConfig(c) ==
    IF RateLimitConfigValid(c) THEN [kind |-> "config", config |-> c] ELSE ValueError

(* RateLimitConfig(..., policy_overrides={"/b": o}) where o is
   PolicyConfig(limit, window) or {"POST": PolicyConfig(limit, window)}; the
   policy is constructed first. *)
BuildConfig(a) ==
    LET policy == NewPolicyConfig(a.limit, a.window)
    IN  IF policy = ValueError THEN ValueError
        ELSE NewRateLimitConfig(
                 [ default_limit |-> a.default_limit, default_window |-> a.default_window,
                   activation_header |-> a.activation_header,
                   activation_query_param |-> a.activation_query_param,
                   whitelist |-> {},
                   policy_overrides |-> [route \in { <<"/", "b">> } |->
                       IF a.per_method
                       THEN MethodPolicyDict([m \in {POST} |-> policy])
                       ELSE policy] ])

InitConfig ==
    /\ \E limit \in ConfigInts, window \in ConfigInts,
          default_limit \in ConfigInts, default_window \in ConfigInts,
          h \in {None, <<"X", "-", "A">>}, q \in {None, <<"r", "l">>},
          per_method \in BOOLEAN, route \in { <<"/", "a">>, <<"/", "b">> },
          method \in {GET, POST} :
          args = [ limit |-> limit, window |-> window,
                   default_limit |-> default_limit, default_window |-> default_window,
                   activation_header |-> h, activation_query_param |-> q,
                   per_method |-> per_method, route |-> route, method |-> method ]
    /\ ret = NotCalled
    /\ BackendIdle
    /\ MwIdle
    /\ CtxIdle
    /\ ETagIdle

(* The configuration is constructed. *)
ConfigConstruct ==
    /\ ~ret.called
    /\ ret' = Returned([built |-> BuildConfig(args), resolved |-> FALSE, policy |-> <<>>])
    /\ UNCHANGED <<args, backendVars, mwVars, ctxVars, etagVars>>

(* middleware.py line 110 on the constructed configuration *)
ConfigResolve ==
    /\ ret.called
    /\ ret.value.built # ValueError
    /\ ~ret.value.resolved
    /\ ret' = Returned([ret.value EXCEPT
                 !.resolved = TRUE,
                 !.policy = get_rate_limit_policy(args.route, args.method,
                                                  ret.value.built.config)])
    /\ UNCHANGED <<args, backendVars, mwVars, ctxVars, etagVars>>

NextConfig == ConfigConstruct \/ ConfigResolve

SpecConfig == InitConfig /\ [][NextConfig]_vars

(* C20: constructing a PolicyConfig with limit <= 0 or window <= 0, or a
   RateLimitConfig with default_limit <= 0, default_window <= 0 or neither
   activation signal set, raises; every other construction succeeds; so every
   (limit, window) the middleware resolves for backend.hit is positive. *)
C20_ConfigValidated ==
    ret.called =>
        /\ (ret.value.built = ValueError) <=>
              \/ args.limit <= 0 \/ args.window <= 0
              \/ args.default_limit <= 0 \/ args.default_window <= 0
              \/ (args.activation_header = None /\ args.activation_query_param = None)
        /\ ret.value.resolved =>
              /\ ret.value.policy[1] > 0 /\ ret.value.policy[2] > 0
              /\ ret.value.policy \in { <<args.limit, args.window>>,
                                        <<args.default_limit, args.default_window>> }

(* A window of 0 in the override of an otherwise valid configuration is refused. *)
C20_Witness ==
    /\ ret.called
    /\ args.window = 0 /\ args.limit = 1
    /\ args.default_limit = 1 /\ args.default_window = 1
    /\ args.activation_header # None /\ args.activation_query_param = None
    /\ ret.value.built = ValueError

(* ===================== scopes that are not HTTP ======================== *)
(* C21: a scope whose type is not "http" goes to the downstream handler with
   the original send, whatever activation signal it carries; no identity is
   extracted, no metric touched and no backend hit made for it. *)
C21_NonHttpForwarded ==
    /\ \A i \in DOMAIN reqs : reqs[i].scope.type # "http" => Bypassed(reqs[i])
    /\ LET http == Cardinality({i \in DOMAIN reqs : reqs[i].scope.type = "http"})
       IN  /\ total_requests <= http
           /\ rate_limited_requests <= http
           /\ Len(calls) <= http
           /\ http = 0 => counters = EmptyMap /\ warnings = <<>>

(* Two websocket scopes that carry the activating header, both handled by the
   downstream handler, nothing counted. *)
C21_Witness ==
    /\ Len(reqs) = 2
    /\ \A i \in DOMAIN reqs :
          /\ reqs[i].scope.type = "websocket"
          /\ reqs[i].scope.headers = MwHeaderOn
          /\ reqs[i].pc = "done" /\ reqs[i].sent = app(reqs[i].scope)
    /\ total_requests = 0 /\ calls = <<>> /\ counters = EmptyMap

(* ================= RedisBackend.hit under interleaving ================== *)
(* The hits counted in the same window of the same key as hit i. *)
WindowHits(i) == {j \in DOMAIN calls : SameWindow(i, j)}

(* C22: shared-store backend: of the N hits of one key counted inside one
   window, whatever the interleaving of their INCR / EXPIRE / TTL steps,
   Min(N, limit) are allowed and the other N - limit are rejected with
   remaining 0. *)
C22_ConcurrentExactlyLimit ==
    backend = "redis" =>
        \A i \in DOMAIN calls :
            LET c == calls[i]
                G == WindowHits(i)
                allowed == {j \in G : Done(j) /\ calls[j].allowed}
                rejected == {j \in G : Done(j) /\ ~calls[j].allowed}
            IN  /\ Cardinality({j \in G : calls[j].count <= c.limit})
                      = Min(Cardinality(G), c.limit)
                /\ Done(i) => (c.allowed <=> c.count <= c.limit)
                /\ Cardinality(allowed) <= c.limit
                /\ \A j \in rejected : calls[j].remaining = 0
                /\ (\A j \in G : Done(j)) =>
                      /\ Cardinality(allowed) = Min(Cardinality(G), c.limit)
                      /\ Cardinality(rejected) = Max(Cardinality(G) - c.limit, 0)

(* Two hits issued at the same clock reading with limit 1: the second has been
   rejected while the first, which created the key, has not set the expiry. *)
C22_Witness ==
    /\ backend = "redis"
    /\ \E i, j \in DOMAIN calls :
          /\ i < j /\ SameWindow(i, j)
          /\ calls[i].current_time = calls[j].current_time
          /\ calls[i].limit = 1
          /\ calls[i].pc = "expire"
          /\ Done(j) /\ ~calls[j].allowed /\ calls[j].remaining = 0

(* The store key of counted hit c. *)
KeyOf(c) == RedisKey(c.key, c.window)

(* The hit that created the stored key rk: counted 1 in the key's window. *)
CreatorOf(rk) ==
    {i \in DOMAIN calls :
        /\ KeyOf(calls[i]) = rk
        /\ calls[i].count = 1
        /\ calls[i].win = store[rk].created_at}

(* C23: shared-store backend: a hit is counted by INCR first; it goes on to
   EXPIRE(window) if and only if INCR returned 1, then to the TTL read; reset
   is current_time + ttl for a positive ttl and current_time + window
   otherwise; the expiry of a key is set once per window, by the hit that
   created the key. *)
C23_HitProtocol ==
    [][ backend = "redis" =>
          /\ \A i \in DOMAIN calls' :
                LET c == calls'[i]
                    rk == KeyOf(c)
                IN  IF i \notin DOMAIN calls
                    THEN /\ c.count = store'[rk].value
                         /\ c.count = IF rk \in DOMAIN store THEN store[rk].value + 1 ELSE 1
                         /\ c.pc = IF c.count = 1 THEN "expire" ELSE "ttl"
                         /\ store'[rk].expire_at
                               = IF rk \in DOMAIN store THEN store[rk].expire_at ELSE NoExpiry
                    ELSE /\ <<calls[i].pc, c.pc>> \in
                               {<<"expire", "expire">>, <<"expire", "ttl">>,
                                <<"ttl", "ttl">>, <<"ttl", "done">>, <<"done", "done">>}
                         /\ (calls[i].pc = "expire" /\ c.pc = "ttl") =>
                               /\ c.count = 1
                               /\ rk \in DOMAIN store
                               /\ store[rk].created_at = c.win
                               /\ store[rk].expire_at = NoExpiry
                               /\ store'[rk].expire_at = now + c.window
                         /\ (calls[i].pc = "ttl" /\ c.pc = "done") =>
                               /\ store' = store
                               /\ c.reset =
                                     IF /\ rk \in DOMAIN store
                                        /\ store[rk].expire_at # NoExpiry
                                        /\ store[rk].expire_at - now > 0
                                     THEN c.current_time + (store[rk].expire_at - now)
                                     ELSE c.current_time + c.window
          /\ \A rk \in DOMAIN store :
                /\ Cardinality(CreatorOf(rk)) = 1
                /\ \A i \in CreatorOf(rk) :
                      (store[rk].expire_at = NoExpiry) <=> (calls[i].pc = "expire")
                /\ (rk \in DOMAIN store' /\ store'[rk].expire_at # store[rk].expire_at) =>
                      \E i \in CreatorOf(rk) :
                          calls[i].pc = "expire" /\ calls'[i].pc = "ttl"
      ]_vars

(* The creator has set the expiry; a second hit of the window read a TTL
   shorter than the window and reports current_time + ttl. *)
C23_Witness ==
    /\ backend = "redis"
    /\ \E i, j \in DOMAIN calls :
          /\ i < j /\ SameWindow(i, j) /\ Done(i) /\ Done(j)
          /\ calls[i].count = 1 /\ calls[j].count = 2
          /\ KeyOf(calls[i]) \in DOMAIN store
          /\ store[KeyOf(calls[i])].expire_at = calls[i].win + calls[i].window
          /\ calls[j].reset > calls[j].current_time
          /\ calls[j].reset < calls[j].current_time + calls[j].window

(* C27: shared-store backend: the reset of every finished hit is the moment
   at which the store expires the counter key of the window the hit was counted
   in, also for a hit that ran between another hit's INCR and EXPIRE. *)
C27_ResetIsKeyExpiry ==
    backend = "redis" =>
        \A i \in DOMAIN calls :
            LET c == calls[i]
                rk == KeyOf(c)
            IN  (/\ Done(i)
                 /\ rk \in DOMAIN store
                 /\ store[rk].created_at = c.win
                 /\ store[rk].expire_at # NoExpiry)
                => c.reset = store[rk].expire_at

(* C28: shared-store backend: every result has
   current_time < reset <= current_time + window, whichever value the TTL read
   returned (positive, 0, -1, -2) and however the hit interleaved with others. *)
C28_ResetBounds ==
    backend = "redis" =>
        \A i \in DOMAIN calls :
            Done(i) =>
                /\ calls[i].current_time < calls[i].reset
                /\ calls[i].reset <= calls[i].current_time + calls[i].window

(* A hit has finished while the creator of its key has not set the expiry: its
   TTL read returned -1 and it reports current_time + window; the key is
   still there without expiry. *)
C28_Witness ==
    /\ backend = "redis"
    /\ \E i, j \in DOMAIN calls :
          /\ SameWindow(i, j) /\ calls[i].pc = "expire" /\ Done(j)
          /\ KeyOf(calls[j]) \in DOMAIN store
          /\ store[KeyOf(calls[j])].expire_at = NoExpiry
          /\ calls[j].reset = calls[j].current_time + calls[j].window

(* ============ RedisBackend.hit with hits that do not finish ============= *)
(* The task of hit i is cancelled, or its connection fails, while it awaits a
   store command after INCR: the exception leaves hit() and the commands that
   follow in lines 40-43 are never issued. *)
RedisHitCancel(i) ==
    /\ calls[i].pc \in {"expire", "ttl"}
    /\ calls' = [calls EXCEPT ![i].pc = "cancelled"]
    /\ UNCHANGED <<now, backend, hit_limit, counters, store, started, pureVars, ctxVars, etagVars, mwVars>>

InitLive ==
    /\ now = 0
    /\ backend = "redis"
    /\ hit_limit \in Limits
    /\ counters = EmptyMap
    /\ store = EmptyMap
    /\ started = <<>>
    /\ calls = <<>>
    /\ PureIdle
    /\ MwIdle
    /\ CtxIdle
    /\ ETagIdle

NextLive ==
    \/ \E key \in RedisKeys, window \in RedisWindows : RedisHitStart(key, window)
    \/ \E j \in DOMAIN started : RedisHitIncr(j)
    \/ \E i \in DOMAIN calls : RedisHitExpire(i)
    \/ \E i \in DOMAIN calls : RedisHitTtl(i)
    \/ \E i \in DOMAIN calls : RedisHitCancel(i)
    \/ RedisExpired
    \/ Tick

(* The event loop resumes every coroutine whose awaited command has been
   answered, the store answers every command, and time passes; a cancellation
   is never owed. *)
FairLive ==
    /\ WF_vars(\E j \in DOMAIN started : RedisHitIncr(j))
    /\ \A i \in 1..MaxHits : WF_vars(i \in DOMAIN calls /\ RedisHitExpire(i))
    /\ \A i \in 1..MaxHits : WF_vars(i \in DOMAIN calls /\ RedisHitTtl(i))
    /\ WF_vars(Tick)

SpecRedisLive == InitLive /\ [][NextLive]_vars /\ FairLive

RedisStoreKeys == {RedisKey(key, window) : key \in RedisKeys, window \in RedisWindows}

(* C29: shared-store backend: a counter key that exists without an expiry
   eventually carries one (or is gone), also when the hit that created it is
   cancelled or fails between its INCR and its EXPIRE. *)
C29_EveryKeyGetsExpiry ==
    \A rk \in RedisStoreKeys :
        (rk \in DOMAIN store /\ store[rk].expire_at = NoExpiry)
            ~> (rk \notin DOMAIN store \/ store[rk].expire_at # NoExpiry)

(* ================== InMemoryBackend: where windows start ================ *)
(* The first hit ever counted on the counter of hit i. *)
FirstOnCounter(i) == CHOOSE j \in 1..i : SameCounter(i, j) /\ PrevOnCounter(j) = 0

(* C26 as stated: in-process backend: every window_start_time stored for a key
   is t0 + k * window, t0 being the time of the key's first hit ever. *)
C26_WindowsAnchored ==
    backend = "inmemory" =>
        \A i \in DOMAIN calls :
            (calls[i].win - calls[FirstOnCounter(i)].win) % calls[i].window = 0

(* C26: in-process backend: every window_start_time is the clock reading of
   the hit that opened the window: the first hit of the key, or the first hit
   at or after the end of the key's previous window; successive starts of one
   key are at least `window` apart, not a multiple of it. *)
C26_WindowStartsAtOpeningHit ==
    backend = "inmemory" =>
        /\ \A i \in DOMAIN calls :
              LET c == calls[i]
                  p == PrevOnCounter(i)
              IN  /\ c.count = 1 => c.win = c.current_time
                  /\ p = 0 => c.count = 1
                  /\ p # 0 =>
                        IF c.current_time >= calls[p].win + c.window
                        THEN c.count = 1
                        ELSE c.count = calls[p].count + 1 /\ c.win = calls[p].win
        /\ \A wk \in DOMAIN counters :
              \E i \in DOMAIN calls :
                  /\ calls[i].key = wk[1] /\ calls[i].window = wk[2]
                  /\ calls[i].count = 1
                  /\ calls[i].current_time = counters[wk].window_start_time

(* After an idle gap longer than the window, the stored start is the time of
   the hit that ended the gap, off the grid of the key's first hit. *)
C26_Witness ==
    /\ backend = "inmemory"
    /\ \E i, j \in DOMAIN calls :
          /\ i = PrevOnCounter(j) /\ PrevOnCounter(i) = 0
          /\ calls[j].current_time > calls[i].win + calls[i].window
          /\ (calls[j].win - calls[i].win) % calls[j].window # 0
          /\ counters[<<calls[j].key, calls[j].window>>].window_start_time
                = calls[j].current_time

(* ================= generate_rate_limit_key: the separator =============== *)
(* The positions of ':' in s. *)
Separators(s) == {i \in DOMAIN s : s[i] = ":"}

(* The three component boundaries of the key of triple t: after the prefix,
   after the client id, after the route. *)
Boundaries(t) ==
    { Len(RatelimitPrefix) + 1,
      Len(RatelimitPrefix) + 1 + Len(t[1]) + 1,
      Len(RatelimitPrefix) + 1 + Len(t[1]) + 1 + Len(t[2]) + 1 }

(* C30: for every triple, components containing ':' included, the key has the
   separator at its three component boundaries and nowhere else, so splitting
   it gives back prefix and three components of the lengths that went in, and
   two triples with the same key have the same component boundaries. *)
C30_SeparatorOnlyAtBoundaries ==
    ret.called =>
        /\ \A k \in {1, 2} :
              LET parts == Split(ret.value[k], ":")
              IN  /\ Separators(ret.value[k]) = Boundaries(args[k])
                  /\ Len(parts) = 4
                  /\ parts[1] = RatelimitPrefix
                  /\ \A c \in 1..3 : Len(parts[c + 1]) = Len(args[k][c])
        /\ ret.value[1] = ret.value[2] => Boundaries(args[1]) = Boundaries(args[2])

(* Two triples whose plain concatenations coincide although their boundaries
   differ ("/:" + "G" against "/" + ":G"): their keys differ. *)
C30_Witness ==
    /\ ret.called
    /\ Boundaries(args[1]) # Boundaries(args[2])
    /\ generate_rate_limit_key_raw(args[1][1], args[1][2], args[1][3])
          = generate_rate_limit_key_raw(args[2][1], args[2][2], args[2][3])
    /\ ret.value[1] # ret.value[2]
    /\ Cardinality(Separators(ret.value[1])) = 3
    /\ Cardinality(Separators(ret.value[2])) = 3

(* ========= InMemoryBackend.hit called from several threads ============= *)
(* hit() has no await and takes no lock: on one event loop it runs as one step
   (MemHit); called from several threads, the interpreter may switch threads
   between its statements and inside line 26, which loads the entry and its
   count, adds one and stores into the entry it loaded.  Each entry carries the
   identity `id` of its dict object: the index of the hit that created it. *)
ThreadKeys == { generate_rate_limit_key(<<"a">>, <<"/">>, <<"G", "E", "T">>) }

ThreadWindows == {2}

(* The frame of a hit: d is the entry object line 26 loaded, v its count. *)
ThreadCall(key, limit, window, current_time) ==
    [ key |-> key, limit |-> limit, window |-> window, current_time |-> current_time,
      pc |-> "cleanup", count |-> 0, win |-> -1,
      allowed |-> FALSE, remaining |-> -1, reset |-> -1, d |-> 0, v |-> 0 ]

(* lines 13-14 *)
ThreadStart(key, window) ==
    /\ Len(calls) < MaxThreadHits
    /\ calls' = Append(calls, ThreadCall(key, hit_limit, window, now))
    /\ UNCHANGED <<now, backend, hit_limit, counters, store, started, pureVars, ctxVars, etagVars, mwVars>>

(* line 16 *)
ThreadCleanup(i) ==
    /\ calls[i].pc = "cleanup"
    /\ counters' = _cleanup_expired_entries(counters, calls[i].current_time)
    /\ calls' = [calls EXCEPT ![i].pc = "check"]
    /\ UNCHANGED <<now, backend, hit_limit, store, started, pureVars, ctxVars, etagVars, mwVars>>

(* lines 18-21 *)
ThreadCheckExpiry(i) ==
    /\ calls[i].pc = "check"
    /\ LET c == calls[i]
           window_key == <<c.key, c.window>>
       IN  counters' =
              IF /\ window_key \in DOMAIN counters
                 /\ WindowExpired(c.current_time,
                                  counters[window_key].window_start_time, c.window)
              THEN Restrict(counters, DOMAIN counters \ {window_key})
              ELSE counters
    /\ calls' = [calls EXCEPT ![i].pc = "create"]
    /\ UNCHANGED <<now, backend, hit_limit, store, started, pureVars, ctxVars, etagVars, mwVars>>

(* lines 23-24 *)
ThreadCreate(i) ==
    /\ calls[i].pc = "create"
    /\ LET c == calls[i]
           window_key == <<c.key, c.window>>
       IN  counters' =
              IF window_key \notin DOMAIN counters
              THEN [wk \in DOMAIN counters \cup {window_key} |->
                      IF wk = window_key
                      THEN [count |-> 0, window_start_time |-> c.current_time, id |-> i]
                      ELSE counters[wk]]
              ELSE counters
    /\ calls' = [calls EXCEPT ![i].pc = "load"]
    /\ UNCHANGED <<now, backend, hit_limit, store, started, pureVars, ctxVars, etagVars, mwVars>>

(* line 26, the loads: self._counters[window_key] (KeyError when another
   thread has deleted it), then its "count" *)
ThreadLoad(i) ==
    /\ calls[i].pc = "load"
    /\ LET c == calls[i]
           window_key == <<c.key, c.window>>
       IN  calls' =
              IF window_key \notin DOMAIN counters
              THEN [calls EXCEPT ![i].pc = "raised"]
              ELSE [calls EXCEPT ![i].pc = "store",
                                 ![i].d = counters[window_key].id,
                                 ![i].v = counters[window_key].count]
    /\ UNCHANGED <<now, backend, hit_limit, counters, store, started, pureVars, ctxVars, etagVars, mwVars>>

(* line 26, the store: into the entry that was loaded, which may no longer be
   the one in the map *)
ThreadStore(i) ==
    /\ calls[i].pc = "store"
    /\ LET c == calls[i]
           window_key == <<c.key, c.window>>
       IN  counters' =
              IF window_key \in DOMAIN counters /\ counters[window_key].id = c.d
              THEN [counters EXCEPT ![window_key].count = IncrementCount(c.v)]
              ELSE counters
    /\ calls' = [calls EXCEPT ![i].pc = "read"]
    /\ UNCHANGED <<now, backend, hit_limit, store, started, pureVars, ctxVars, etagVars, mwVars>>

(* lines 28-35 *)
ThreadResult(i) ==
    /\ calls[i].pc = "read"
    /\ LET c == calls[i]
           window_key == <<c.key, c.window>>
       IN  IF window_key \notin DOMAIN counters
           THEN calls' = [calls EXCEPT ![i].pc = "raised"]
           ELSE LET e == counters[window_key]
                    remaining == Remaining(e.count, c.limit)
                IN  /\ RateLimitResultValid(remaining)
                    /\ calls' = [calls EXCEPT
                          ![i].pc = "done",
                          ![i].count = e.count,
                          ![i].win = e.window_start_time,
                          ![i].allowed = Allowed(e.count, c.limit),
                          ![i].remaining = remaining,
                          ![i].reset = InMemoryReset(e.window_start_time, c.window)]
    /\ UNCHANGED <<now, backend, hit_limit, counters, store, started, pureVars, ctxVars, etagVars, mwVars>>

InitThreads ==
    /\ now = 0
    /\ backend = "inmemory"
    /\ hit_limit \in Limits
    /\ counters = EmptyMap
    /\ store = EmptyMap
    /\ started = <<>>
    /\ calls = <<>>
    /\ PureIdle
    /\ MwIdle
    /\ CtxIdle
    /\ ETagIdle

NextThreads ==
    \/ \E key \in ThreadKeys, window \in ThreadWindows : ThreadStart(key, window)
    \/ \E i \in DOMAIN calls : ThreadCleanup(i)
    \/ \E i \in DOMAIN calls : ThreadCheckExpiry(i)
    \/ \E i \in DOMAIN calls : ThreadCreate(i)
    \/ \E i \in DOMAIN calls : ThreadLoad(i)
    \/ \E i \in DOMAIN calls : ThreadStore(i)
    \/ \E i \in DOMAIN calls : ThreadResult(i)
    \/ Tick

SpecThreads == InitThreads /\ [][NextThreads]_vars

(* The hits whose increment went to the entry object with identity id. *)
IncrementedEntry(id) ==
    {i \in DOMAIN calls : calls[i].d = id /\ calls[i].pc \in {"read", "done", "raised"}}

(* C25: in-process backend: hit is atomic per key also when invocations
   interleave between its steps: the count of an entry is the number of hits
   that incremented it (no increment is lost), and its window_start_time is
   the clock reading of its first hit, with every hit counted in it falling
   inside its window. *)
C25_HitAtomicPerKey ==
    \A wk \in DOMAIN counters :
        LET e == counters[wk]
        IN  /\ e.count = Cardinality(IncrementedEntry(e.id))
            /\ \A i \in IncrementedEntry(e.id) :
                  /\ e.window_start_time <= calls[i].current_time
                  /\ calls[i].current_time < e.window_start_time + wk[2]

(* ============== context/__init__.py: the request context =============== *)
(* The server runs every request in a task; a task has its own context, a
   copy of the context the server started in, so a ContextVar.set made in one
   task is not seen in another.  A task handles its requests one after the
   other; the tasks interleave at every await.  The values a dict holds are the
   ids of the requests that wrote them; a write or read outside any request
   has id 0. *)
CtxTasks == {1, 2}

ScopeTypes == {"http", "websocket"}

(* The ContextVar holds no value in this context: get() raises LookupError. *)
Unset == 0

Last(s) == s[Len(s)]

Front(s) == SubSeq(s, 1, Len(s) - 1)

(* lines 22-31: Context.data, the dict every UserDict method works on *)
ContextData(value) ==
    IF value = Unset
    THEN [raised |-> TRUE, dict |-> Unset]
    ELSE [raised |-> FALSE, dict |-> value]

(* A reset that leaves the variable as it is. *)
ContextVarResetKeep(value, token) == value

(* line 40: ContextVar.reset(token) puts back the value the token remembers. *)
ContextVarReset(value, token) == token

(* The blocks of a frame are left innermost first, each running its finally. *)
RECURSIVE Unwind(_, _)
Unwind(value, tokens) ==
    IF tokens = <<>> THEN value
    ELSE Unwind(ContextVarReset(value, Last(tokens)), Front(tokens))

(* One access to http_request_context: who made it, inside how many blocks,
   how it ended and what it could see. *)
Access(t, outcome, seen) ==
    [ req |-> ctx_tasks[t].req, depth |-> Len(ctx_tasks[t].tokens),
      outcome |-> outcome, seen |-> seen ]

NoAccess == [req |-> 0, depth |-> 0, outcome |-> "none", seen |-> {}]

(* line 36: token = _http_request_context.set(dict()) *)
EnterContext(t) ==
    /\ ctx_dicts' = Append(ctx_dicts, {})
    /\ _http_request_context' =
          [_http_request_context EXCEPT ![t] = Len(ctx_dicts) + 1]

(* lines 49-54: __call__ up to the handler's first step *)
CtxCall(t, type) ==
    /\ ctx_tasks[t].pc = "idle"
    /\ Len(ctx_reqs) < MaxCtxRequests
    /\ ctx_reqs' = Append(ctx_reqs, [type |-> type, task |-> t])
    /\ IF type = "http"
       THEN /\ EnterContext(t)
            /\ ctx_tasks' = [ctx_tasks EXCEPT
                  ![t].pc = "app", ![t].req = Len(ctx_reqs) + 1,
                  ![t].tokens = <<_http_request_context[t]>>]
       ELSE /\ ctx_tasks' = [ctx_tasks EXCEPT
                  ![t].pc = "app", ![t].req = Len(ctx_reqs) + 1]
            /\ UNCHANGED <<_http_request_context, ctx_dicts>>
    /\ UNCHANGED <<backendVars, pureVars, mwVars, etagVars>>

(* The handler opens a block of its own: with new_context(), lines 34-38. *)
CtxEnter(t) ==
    /\ ctx_tasks[t].pc = "app"
    /\ Len(ctx_tasks[t].tokens) < MaxCtxDepth
    /\ Len(ctx_dicts) < MaxCtxDicts
    /\ EnterContext(t)
    /\ ctx_tasks' = [ctx_tasks EXCEPT ![t].tokens = Append(@, _http_request_context[t])]
    /\ UNCHANGED <<ctx_reqs, backendVars, pureVars, mwVars, etagVars>>

(* The handler leaves its innermost own block: lines 39-40. *)
CtxExit(t) ==
    /\ ctx_tasks[t].pc = "app"
    /\ Len(ctx_tasks[t].tokens)
          > (IF ctx_reqs[ctx_tasks[t].req].type = "http" THEN 1 ELSE 0)
    /\ _http_request_context' =
          [_http_request_context EXCEPT
              ![t] = ContextVarReset(@, Last(ctx_tasks[t].tokens))]
    /\ ctx_tasks' = [ctx_tasks EXCEPT ![t].tokens = Front(@)]
    /\ UNCHANGED <<ctx_dicts, ctx_reqs, backendVars, pureVars, mwVars, etagVars>>

(* http_request_context[key] = value, by the request the task runs or, on an
   idle task, by code outside any request *)
CtxWrite(t) ==
    /\ LET d == ContextData(_http_request_context[t])
       IN  IF d.raised
           THEN /\ ctx_tasks' = [ctx_tasks EXCEPT ![t].last = Access(t, "raised", {})]
                /\ UNCHANGED ctx_dicts
           ELSE /\ ctx_dicts' = [ctx_dicts EXCEPT ![d.dict] = @ \cup {ctx_tasks[t].req}]
                /\ ctx_tasks' = [ctx_tasks EXCEPT ![t].last = Access(t, "written", {})]
    /\ UNCHANGED <<_http_request_context, ctx_reqs, backendVars, pureVars, mwVars, etagVars>>

(* http_request_context[key], .get(key), iteration: what the access can see *)
CtxRead(t) ==
    /\ LET d == ContextData(_http_request_context[t])
       IN  ctx_tasks' = [ctx_tasks EXCEPT ![t].last =
              IF d.raised THEN Access(t, "raised", {})
              ELSE Access(t, "read", ctx_dicts[d.dict])]
    /\ UNCHANGED <<_http_request_context, ctx_dicts, ctx_reqs,
                   backendVars, pureVars, mwVars, etagVars>>

(* The handler returns or raises: every block still open runs its finally
   (lines 39-40), then __call__ is over. *)
CtxReturn(t, how) ==
    /\ ctx_tasks[t].pc = "app"
    /\ _http_request_context' =
          [_http_request_context EXCEPT ![t] = Unwind(@, ctx_tasks[t].tokens)]
    /\ ctx_tasks' = [ctx_tasks EXCEPT ![t].pc = "idle", ![t].req = 0, ![t].tokens = <<>>,
                                       ![t].left = how, ![t].last = NoAccess]
    /\ UNCHANGED <<ctx_dicts, ctx_reqs, backendVars, pureVars, mwVars, etagVars>>

(* The server starts with the ContextVar unset: the module sets no default
   (line 11). *)
InitContext ==
    /\ _http_request_context = [t \in CtxTasks |-> Unset]
    /\ ctx_dicts = <<>>
    /\ ctx_tasks = [t \in CtxTasks |->
                      [pc |-> "idle", req |-> 0, tokens |-> <<>>, left |-> "never",
                       last |-> NoAccess]]
    /\ ctx_reqs = <<>>
    /\ BackendIdle
    /\ PureIdle
    /\ MwIdle
    /\ ETagIdle

NextContext ==
    \/ \E t \in CtxTasks, type \in ScopeTypes : CtxCall(t, type)
    \/ \E t \in CtxTasks : CtxEnter(t)
    \/ \E t \in CtxTasks : CtxExit(t)
    \/ \E t \in CtxTasks : CtxWrite(t)
    \/ \E t \in CtxTasks : CtxRead(t)
    \/ \E t \in CtxTasks, how \in {"returned", "raised"} : CtxReturn(t, how)

SpecContext == InitContext /\ [][NextContext]_vars

(* Request w is an HTTP request (0 is the code outside any request). *)
IsHttpRequest(w) == w \in DOMAIN ctx_reqs /\ ctx_reqs[w].type = "http"

(* C24: a value written while handling an HTTP request is seen by no access
   of another request or of code outside it, afterwards or while both are in
   flight; a task that has left a request finds the ContextVar as it was
   before the request, whether the handler returned or raised; and an access
   raises RequestContextException exactly when it is made outside every
   context block. *)
C24_RequestContextIsolated ==
    /\ \A t \in CtxTasks :
          LET e == ctx_tasks[t].last
          IN  /\ \A w \in e.seen : IsHttpRequest(w) => e.req = w
              /\ ctx_tasks[t].pc = "idle" => _http_request_context[t] = Unset
              /\ e.outcome = "raised" <=> (e.outcome # "none" /\ e.depth = 0)
    /\ \A d \in DOMAIN ctx_dicts :
          \A w \in ctx_dicts[d] : IsHttpRequest(w) => ctx_dicts[d] = {w}

(* Two HTTP requests in flight together, one per task: each has written its
   value, the second inside a block its handler opened, and each has read back
   its own value only. *)
C24_Witness ==
    /\ Len(ctx_reqs) = 2
    /\ Len(ctx_tasks[2].tokens) = 2
    /\ \A t \in CtxTasks :
          /\ ctx_tasks[t].pc = "app" /\ IsHttpRequest(ctx_tasks[t].req)
          /\ ctx_tasks[t].last.outcome = "read"
          /\ ctx_tasks[t].last.seen = {ctx_tasks[t].req}
          /\ ctx_dicts[_http_request_context[t]] = {ctx_tasks[t].req}
    /\ _http_request_context[1] # _http_request_context[2]

(* ------------------------------ C31 ----------------------------------- *)
(* The negative values a caller may try to construct a result with. *)
NegativeRemainings == (0 - MaxHits)..(0 - 1)

(* C31: every result returned by either backend has allowed = (count <= limit)
   and remaining = max(0, limit - count) >= 0, so a rejected result has
   remaining 0; constructing a RateLimitResult with a negative remaining
   raises, the value is not clamped. *)
C31_ResultWellFormed ==
    /\ \A i \in DOMAIN calls :
          Done(i) =>
              LET c == calls[i]
              IN  /\ c.allowed = (c.count <= c.limit)
                  /\ c.remaining = (IF c.limit - c.count > 0 THEN c.limit - c.count ELSE 0)
                  /\ c.remaining >= 0
                  /\ ~c.allowed => c.remaining = 0
    /\ \A r \in NegativeRemainings : ~RateLimitResultValid(r)

(* A returned result whose limit - count is below -1: only the clamp makes its
   remaining 0. *)
C31_Witness ==
    \E i \in DOMAIN calls :
        /\ Done(i) /\ ~calls[i].allowed
        /\ calls[i].limit - calls[i].count < 0 - 1
        /\ calls[i].remaining = 0

(* ------------------------------ C32 ----------------------------------- *)
(* C32: in-process backend: a hit at time t on any key removes every entry, of
   every key, whose window has expired (t >= window_start_time + window): after
   the hit the counter map holds no expired entry and every entry has
   count >= 1; the entries whose window has not expired are kept. *)
C32_HitSweepsExpired ==
    [][ (backend = "inmemory" /\ Len(calls') = Len(calls) + 1) =>
          LET c == calls'[Len(calls')]
              t == c.current_time
              hit_key == <<c.key, c.window>>
          IN  /\ \A wk \in DOMAIN counters' :
                    /\ t < counters'[wk].window_start_time + wk[2]
                    /\ counters'[wk].count >= 1
              /\ \A wk \in DOMAIN counters :
                    IF t >= counters[wk].window_start_time + wk[2]
                    THEN wk # hit_key => wk \notin DOMAIN counters'
                    ELSE /\ wk \in DOMAIN counters'
                         /\ counters'[wk].window_start_time = counters[wk].window_start_time
                         /\ wk # hit_key => counters'[wk] = counters[wk]
      ]_vars

(* The last hit swept the expired entry of another key and kept a third
   entry, older than the hit, whose window was still open. *)
C32_Witness ==
    \E i, j \in DOMAIN calls :
        LET k == Len(calls)
        IN  /\ backend = "inmemory"
            /\ i < k /\ j < k
            /\ calls[i].key # calls[k].key
            /\ calls[k].current_time >= calls[i].win + calls[i].window
            /\ <<calls[i].key, calls[i].window>> \notin DOMAIN counters
            /\ <<calls[j].key, calls[j].window>> # <<calls[k].key, calls[k].window>>
            /\ calls[j].current_time < calls[k].current_time
            /\ <<calls[j].key, calls[j].window>> \in DOMAIN counters
            /\ counters[<<calls[j].key, calls[j].window>>].window_start_time = calls[j].win

(* ===================== both backends, side by side ===================== *)
(* The caller gives every hit to an InMemoryBackend and to a RedisBackend:
   same key, limit and window, and `now` is the clock reading of both
   (inmemory.py line 13, redis.py line 35).  A hit starts when the one before
   it has returned from both. *)

(* The RateLimitResult the in-process backend returned for the hit. *)
MemResult(e, limit, window) ==
    [ allowed |-> Allowed(e.count, limit),
      remaining |-> Remaining(e.count, limit),
      reset |-> InMemoryReset(e.window_start_time, window) ]

(* The Redis side of a hit whose count has been taken, with the in-process
   result of the same hit. *)
SubstCall(c, mem) ==
    [ key |-> c.key, limit |-> c.limit, window |-> c.window,
      current_time |-> c.current_time, pc |-> c.pc, count |-> c.count, win |-> c.win,
      allowed |-> c.allowed, remaining |-> c.remaining, reset |-> c.reset,
      mem |-> mem ]

(* InMemoryBackend.hit runs to its return; RedisBackend.hit reads the clock
   (line 35) and awaits INCR. *)
SubstStart(key, window) ==
    /\ Len(calls) < MaxSubstHits
    /\ started = <<>>
    /\ \A i \in DOMAIN calls : calls[i].pc = "done"
    /\ LET cs == InMemoryCounters(counters, key, window, now)
           e == cs[<<key, window>>]
       IN  /\ RateLimitResultValid(Remaining(e.count, hit_limit))
           /\ counters' = cs
           /\ started' = <<[key |-> key, window |-> window, current_time |-> now,
                            mem |-> MemResult(e, hit_limit, window)]>>
    /\ UNCHANGED <<now, backend, hit_limit, store, calls, pureVars, ctxVars, etagVars, mwVars>>

(* redis.py line 38, as RedisHitIncr. *)
SubstIncr ==
    /\ started # <<>>
    /\ LET s == started[1]
           rk == RedisKey(s.key, s.window)
           st == RedisIncr(store, rk, now)
           count == st[rk].value
       IN  /\ store' = st
           /\ calls' = Append(calls,
                  SubstCall(CountedCall(s.key, hit_limit, s.window, s.current_time, count,
                                        st[rk].created_at,
                                        IF count = 1 THEN "expire" ELSE "ttl"),
                            s.mem))
    /\ started' = <<>>
    /\ UNCHANGED <<now, backend, hit_limit, counters, pureVars, ctxVars, etagVars, mwVars>>

InitSubstitute ==
    /\ now = 0
    /\ backend = "redis"
    /\ hit_limit \in Limits
    /\ counters = EmptyMap
    /\ store = EmptyMap
    /\ started = <<>>
    /\ calls = <<>>
    /\ PureIdle
    /\ MwIdle
    /\ CtxIdle
    /\ ETagIdle

NextSubstitute ==
    \/ \E key \in BackendKeys, window \in Windows : SubstStart(key, window)
    \/ SubstIncr
    \/ \E i \in DOMAIN calls : RedisHitExpire(i)
    \/ \E i \in DOMAIN calls : RedisHitTtl(i)
    \/ RedisExpired
    \/ Tick

SpecSubstitute == InitSubstitute /\ [][NextSubstitute]_vars

(* The RateLimitResult the shared-store backend returned for hit i. *)
RedisResult(i) ==
    [ allowed |-> calls[i].allowed, remaining |-> calls[i].remaining,
      reset |-> calls[i].reset ]

(* ------------------------------ C37 ----------------------------------- *)
(* C37: for a sequence of non-overlapping hits with the same keys, limits,
   windows and integer clock readings, the in-process backend and the
   shared-store backend return the same (allowed, remaining, reset) for every
   hit, also at the window boundary. *)
C37_BackendsAgree ==
    \A i \in DOMAIN calls :
        calls[i].pc = "done" => RedisResult(i) = calls[i].mem

(* ------------------------------ C33 ----------------------------------- *)
(* What the store holds for (key, window): a set with one entry, or none. *)
StoredFor(st, key, window) ==
    IF RedisKey(key, window) \in DOMAIN st THEN {st[RedisKey(key, window)]} ELSE {}

(* Every (key, window) other than the one given. *)
OtherCounters(key, window) == (BackendKeys \X Windows) \ {<<key, window>>}

(* C33: a hit on (key, window) changes the entry of (key, window) only: on the
   in-process backend every unexpired entry of another key, or of the same key
   with another window length, keeps its count and window_start_time; on the
   shared store no command of the hit touches the key of another
   (key, window). *)
C33_CounterIndependence ==
    [][ /\ (started = <<>> /\ started' # <<>>) =>
              LET s == started'[1]
              IN  \A wk \in OtherCounters(s.key, s.window) :
                      (wk \in DOMAIN counters
                         /\ s.current_time < counters[wk].window_start_time + wk[2])
                      => (wk \in DOMAIN counters' /\ counters'[wk] = counters[wk])
        /\ (started # <<>> /\ started' = <<>>) =>
              \A wk \in OtherCounters(started[1].key, started[1].window) :
                  StoredFor(store', wk[1], wk[2]) = StoredFor(store, wk[1], wk[2])
        /\ \A i \in DOMAIN calls :
              (calls[i].pc # "done" /\ calls'[i].pc # calls[i].pc) =>
                  \A wk \in OtherCounters(calls[i].key, calls[i].window) :
                      StoredFor(store', wk[1], wk[2]) = StoredFor(store, wk[1], wk[2])
      ]_vars

(* The second hit went to the same key with another window length while the
   first hit's entry was alive in both backends; both entries stand at 1. *)
C33_Witness ==
    /\ Len(calls) = 2
    /\ calls[1].key = calls[2].key /\ calls[1].window # calls[2].window
    /\ calls[2].pc = "done" /\ calls[2].count = 1 /\ calls[2].mem.remaining = hit_limit - 1
    /\ \A i \in {1, 2} :
          /\ <<calls[i].key, calls[i].window>> \in DOMAIN counters
          /\ counters[<<calls[i].key, calls[i].window>>].count = 1
          /\ StoredFor(store, calls[i].key, calls[i].window) # {}
          /\ \A e \in StoredFor(store, calls[i].key, calls[i].window) : e.value = 1

(* ============ the middleware over a handler that may fail ============== *)
(* How many messages the handler has sent when it raises or is cancelled. *)
FailPoints == {0, 1}

(* The requests sent in SpecMwFail: those that turn rate limiting on. *)
FailScopes == TurnsOnScopes

(* A middleware that gives the hit back when the handler fails. *)
AppRaisedRollback(cs, r) ==
    IF r.send = "wrapped" /\ <<r.key, r.window>> \in DOMAIN cs
    THEN [cs EXCEPT ![<<r.key, r.window>>].count = @ - 1]
    ELSE cs

(* lines 92, 96, 105, 149: no try/except/finally encloses await self.app(...);
   an exception or CancelledError leaves __call__ and the backend is not
   called again. *)
AppRaised(cs, r) == cs

(* The downstream handler raises, or its task is cancelled, after it has sent
   k messages. *)
MwAppFails(i, k) ==
    /\ reqs[i].pc = "app"
    /\ LET r == reqs[i]
           response == SubSeq(app(r.scope), 1, k)
           out == [m \in DOMAIN response |->
                     IF r.send = "wrapped"
                     THEN send_with_headers(response[m], r.limit, r.result)
                     ELSE response[m]]
       IN  /\ reqs' = [reqs EXCEPT ![i] =
                 [r EXCEPT !.pc = "failed", !.sent = @ \o out, !.response = response]]
           /\ counters' = AppRaised(counters, r)
    /\ UNCHANGED <<self_config, total_requests, rate_limited_requests, warnings,
                   now, backend, hit_limit, store, started, calls, pureVars, ctxVars, etagVars>>

InitMwFail ==
    /\ InitMw
    /\ backend = "inmemory"

NextMwFail ==
    \/ \E scope \in FailScopes : MwCall(scope)
    \/ \E i \in DOMAIN reqs, client_id \in MwIdents : MwIdentity(i, client_id)
    \/ \E i \in DOMAIN reqs : MwHit(i)
    \/ \E i \in DOMAIN reqs : MwSendBody(i)
    \/ \E i \in DOMAIN reqs : MwApp(i)
    \/ \E i \in DOMAIN reqs, k \in FailPoints : MwAppFails(i, k)
    \/ MwTick

SpecMwFail == InitMwFail /\ [][NextMwFail]_vars

(* ------------------------------ C34 ----------------------------------- *)
(* C34: a counted hit is never undone: no step lowers the count of an entry
   whose window goes on, an entry is discarded only once its window has
   expired, the hit of an admitted request is counted before the downstream
   handler is entered, and a handler that raises or is cancelled leaves every
   counter as it was. *)
C34_NoRollback ==
    [][ /\ \A wk \in DOMAIN counters :
              IF wk \in DOMAIN counters'
                   /\ counters'[wk].window_start_time = counters[wk].window_start_time
              THEN counters'[wk].count >= counters[wk].count
              ELSE now >= counters[wk].window_start_time + wk[2]
        /\ \A i \in DOMAIN reqs :
              /\ (reqs[i].pc = "app" /\ reqs'[i].pc = "failed") =>
                    (counters' = counters /\ calls' = calls)
              /\ (reqs[i].pc # "app" /\ reqs'[i].pc = "app" /\ reqs'[i].send = "wrapped") =>
                    /\ Len(calls') = Len(calls) + 1
                    /\ calls'[Len(calls')].key = reqs'[i].key
                    /\ calls'[Len(calls')].count = reqs'[i].result.count
                    /\ counters'[<<reqs'[i].key, reqs'[i].window>>].count
                          = reqs'[i].result.count
      ]_vars

(* An admitted request whose handler failed still holds its slot: the next
   request of the same window was counted second and rejected. *)
C34_Witness ==
    \E i, j \in DOMAIN reqs :
        /\ reqs[i].pc = "failed" /\ reqs[i].send = "wrapped" /\ reqs[i].result.count = 1
        /\ reqs[i].limit = 1
        /\ j \in WindowGroup(i) /\ reqs[j].result.count = 2 /\ ~reqs[j].result.allowed
        /\ reqs[j].pc = "done"
        /\ counters[<<reqs[i].key, reqs[i].window>>].count = 2

(* ------------------------------ C35 ----------------------------------- *)
(* Hit j is the first hit on the counter of hit i, after i, whose clock reading
   is at or past t. *)
FirstAtOrAfter(i, j, t) ==
    /\ i < j /\ SameCounter(i, j)
    /\ calls[j].current_time >= t
    /\ \A k \in (i + 1)..(j - 1) : SameCounter(i, k) => calls[k].current_time < t

(* C35: in-process backend, clock never going backwards: after a hit was
   rejected with reset R, the first hit on the same key at a time >= R is
   allowed with count 1 and remaining limit - 1; a rejected hit reports the
   reset of the hit before it, it never moves the end of the window. *)
C35_NoLockoutBeyondReset ==
    backend = "inmemory" =>
        \A i \in DOMAIN calls :
            ~calls[i].allowed =>
                /\ PrevOnCounter(i) # 0
                /\ calls[i].reset = calls[PrevOnCounter(i)].reset
                /\ \A j \in DOMAIN calls :
                      FirstAtOrAfter(i, j, calls[i].reset) =>
                          /\ calls[j].allowed
                          /\ calls[j].count = 1
                          /\ calls[j].remaining = calls[j].limit - 1

(* A rejected hit, then a hit exactly at the reset it reported. *)
C35_Witness ==
    \E i, j \in DOMAIN calls :
        /\ backend = "inmemory"
        /\ ~calls[i].allowed
        /\ FirstAtOrAfter(i, j, calls[i].reset)
        /\ calls[j].current_time = calls[i].reset
        /\ calls[j].allowed /\ calls[j].count = 1

(* ------------------------------ C36 ----------------------------------- *)
(* The request is an activated HTTP request whose identity extraction and,
   unless it is whitelisted, backend hit have returned. *)
PastAdmission(r) ==
    /\ IsHttp(r.scope)
    /\ is_rate_limiting_activated(r.scope, self_config)
    /\ r.pc \in {"app", "send_body", "done"}

(* The middleware has handed the request to the downstream handler. *)
Forwarded(r) == r.app_calls >= 1

(* The middleware itself has begun the 429 response. *)
Emitted429(r) == r.send = "none" /\ Is429Start(r.sent)

(* C36: for every activated HTTP request whose identity extraction and backend
   hit succeed the middleware does exactly one of two things: it invokes the
   downstream handler, once (the client is whitelisted or the hit is allowed),
   or it emits the 429 response (the hit is rejected); never both, never
   neither. *)
C36_ExactlyOneOutcome ==
    \A i \in DOMAIN reqs :
        LET r == reqs[i]
        IN  PastAdmission(r) =>
              /\ Forwarded(r) # Emitted429(r)
              /\ r.app_calls <= 1
              /\ Forwarded(r) =
                    (Whitelisted(r.client_id, self_config) \/ r.result.allowed)
              /\ Emitted429(r) =
                    (r.result # NoResult /\ ~r.result.allowed)
              /\ (Emitted429(r) /\ r.pc = "done") => Is429(r.sent)
              /\ (Forwarded(r) /\ r.pc = "done") => Len(r.sent) = Len(app(r.scope))

(* Both outcomes, finished: one request went through the handler, the next of
   the same window got the 429 response. *)
C36_Witness ==
    \E i, j \in DOMAIN reqs :
        /\ PastAdmission(reqs[i]) /\ PastAdmission(reqs[j])
        /\ reqs[i].pc = "done" /\ reqs[j].pc = "done"
        /\ Forwarded(reqs[i]) /\ ~Emitted429(reqs[i]) /\ reqs[i].send = "wrapped"
        /\ Emitted429(reqs[j]) /\ ~Forwarded(reqs[j]) /\ Is429(reqs[j].sent)

(* ============= the rate-limit headers of both responses ================ *)
(* A Python number in half units: an int (halves even) or a float. *)
PyInt(n) == [is_float |-> FALSE, halves |-> 2 * n]

PyFloat(halves) == [is_float |-> TRUE, halves |-> halves]

(* str(x) of a float with at most one fractional binary digit: "5.0", "5.5",
   "-0.5". *)
StrFloat(halves) ==
    LET a == IF halves < 0 THEN 0 - halves ELSE halves
    IN  (IF halves < 0 THEN <<"-">> ELSE <<>>)
           \o Str(a \div 2) \o <<".">> \o (IF a % 2 = 0 THEN <<"0">> ELSE <<"5">>)

(* str(x) of an int or a float *)
PyStr(x) == IF x.is_float THEN StrFloat(x.halves) ELSE Str(x.halves \div 2)

(* round(x) of an int or a float: an int *)
PyRound(x) == Round(x.halves)

(* The resets a backend may put into a RateLimitResult: ints and floats from
   before the epoch to after the last clock reading. *)
PyResets ==
    {PyFloat(h) : h \in ResetHalves} \cup {PyInt(n) : n \in (0 - 1)..(MaxTime + 1)}

(* lines 133-147 on a start message, for a result whose reset is any number *)
send_with_headers_start(message, limit, result) ==
    [message EXCEPT !.headers = @ \o
        << <<X_RATELIMIT_LIMIT, Str(limit)>>,
           <<X_RATELIMIT_REMAINING, Str(result.remaining)>>,
           <<X_RATELIMIT_RESET, PyStr(result.reset)>> >>]

InitHeaders ==
    /\ \E limit \in Limits, allowed \in BOOLEAN, remaining \in 0..1, reset \in PyResets,
          time \in 0..MaxTime :
          args = [limit |-> limit, time |-> time,
                  result |-> [allowed |-> allowed, remaining |-> remaining,
                              reset |-> reset]]
    /\ ret = NotCalled
    /\ BackendIdle
    /\ MwIdle
    /\ CtxIdle
    /\ ETagIdle

(* lines 115-149 once backend.hit has returned: the start message that reaches
   the client, of the 429 response or of the handler's response *)
HeadersCall ==
    /\ ~ret.called
    /\ ret' = Returned(
          IF ~args.result.allowed
          THEN _send_rate_limit_response(args.limit, args.result.remaining,
                                         PyRound(args.result.reset), args.time)[1]
          ELSE send_with_headers_start(StartMessage(200, <<>>), args.limit, args.result))
    /\ UNCHANGED <<args, backendVars, mwVars, ctxVars, etagVars>>

SpecHeaders == InitHeaders /\ [][HeadersCall]_vars

(* ------------------------------ C38 ----------------------------------- *)
(* The text is a decimal integer: an optional minus sign, then digits only. *)
IsDecimalInteger(text) ==
    LET digits == IF Len(text) > 0 /\ text[1] = "-" THEN Tail(text) ELSE text
    IN  /\ Len(digits) > 0
        /\ \A k \in DOMAIN digits : \E d \in DOMAIN Digits : digits[k] = Digits[d]

(* The values of the header `name` in the start message returned. *)
HeaderValues(name) ==
    {ret.value.headers[k][2] : k \in {m \in DOMAIN ret.value.headers :
                                          ret.value.headers[m][1] = name}}

(* C38: in the admitted response and in the 429 response the x-ratelimit-limit,
   x-ratelimit-remaining and x-ratelimit-reset headers are the decimal-integer
   encodings of the policy limit, the result's remaining and the result's
   reset, for every reset a backend may return, fractional ones included. *)
C38_HeadersAreDecimalIntegers ==
    ret.called =>
        /\ HeaderValues(X_RATELIMIT_LIMIT) = {Str(args.limit)}
        /\ HeaderValues(X_RATELIMIT_REMAINING) = {Str(args.result.remaining)}
        /\ \A v \in HeaderValues(X_RATELIMIT_RESET) : IsDecimalInteger(v)
        /\ HeaderValues(X_RATELIMIT_RESET) # {}
        /\ ~args.result.reset.is_float =>
              HeaderValues(X_RATELIMIT_RESET) = {Str(args.result.reset.halves \div 2)}

(* ------------------------------ C39 ----------------------------------- *)
(* The requests a client could try against a configuration: no header or one
   header, named after the activation header, another name or the empty
   name, and the query strings of QueryStrings or one with an empty name. *)
ProbeHeaderLists ==
    { <<>> } \cup { <<p>> : p \in HeaderPairs \cup { << <<>>, <<"1">> >> } }

ProbeQueryStrings == QueryStrings \cup { <<"=", "1">> }

ProbeScopes ==
    { [type |-> "http", headers |-> hs, query_string |-> qs] :
          hs \in ProbeHeaderLists, qs \in ProbeQueryStrings }

(* C39: every RateLimitConfig that construction accepts, its activation_header
   and activation_query_param being None or a string, the empty string
   included, has a usable activation signal: some request makes
   is_rate_limiting_activated return true. *)
C39_AcceptedConfigUsable ==
    (ret.called /\ RateLimitConfigValid(args.config)) =>
        \E scope \in ProbeScopes : is_rate_limiting_activated(scope, args.config)

(* ======================= etags/__init__.py ============================= *)
IF_MATCH == <<"i", "f", "-", "m", "a", "t", "c", "h">>
IF_NONE_MATCH == <<"i", "f", "-", "n", "o", "n", "e", "-", "m", "a", "t", "c", "h">>
ETAG == <<"E", "T", "a", "g">>
PRECONDITION_FAILED == 412
NOT_MODIFIED == 304

(* The etag_generator the application configures: a digest of the body, here
   the body behind a marker. *)
etag_generator(body) == <<"#">> \o body

(* An http.response.body message. *)
ETagBody(body, more_body) ==
    [type |-> "http.response.body", body |-> body, more_body |-> more_body]

(* line 123 *)
_is_modified(server_etag, client_etag) == server_etag # client_etag

(* lines 50-64: the first if-match or if-none-match header of the request *)
RECURSIVE ConditionalOf(_)
ConditionalOf(headers) ==
    IF headers = <<>> THEN [conditional_header |-> None, client_etag |-> None]
    ELSE IF Head(headers)[1] = IF_MATCH
    THEN [conditional_header |-> "IF_MATCH", client_etag |-> Head(headers)[2]]
    ELSE IF Head(headers)[1] = IF_NONE_MATCH
    THEN [conditional_header |-> "IF_NONE_MATCH", client_etag |-> Head(headers)[2]]
    ELSE ConditionalOf(Tail(headers))

(* ETagSendWrapper.__init__ *)
NewETagSendWrapper(client_etag, conditional_header) ==
    [ constructed |-> TRUE, client_etag |-> client_etag,
      conditional_header |-> conditional_header,
      has_original |-> FALSE, original_message |-> StartMessage(0, <<>>) ]

(* lines 138-151, 156-169: the conditional response *)
ConditionalResponse(status, headers) ==
    << StartMessage(status, headers), ETagBody(<<>>, FALSE) >>

(* ETagSendWrapper.__call__ (lines 125-176) on one message: the wrapper
   afterwards and the messages passed to self.send, in order.  The headers
   list of original_message is the one object every append of line 172 goes
   to. *)
ETagSendWrapperCall(w, message) ==
    IF message.type = "http.response.start"
    THEN [wrapper |-> [w EXCEPT !.has_original = TRUE, !.original_message = message],
          sends |-> <<>>]
    ELSE LET server_etag == etag_generator(message.body)
             headers == w.original_message.headers
         IN  IF w.conditional_header = "IF_MATCH"
                  /\ _is_modified(server_etag, w.client_etag)
             THEN [wrapper |-> w,
                   sends |-> ConditionalResponse(PRECONDITION_FAILED, headers)]
             ELSE IF w.conditional_header = "IF_NONE_MATCH"
                       /\ ~_is_modified(server_etag, w.client_etag)
             THEN [wrapper |-> w, sends |-> ConditionalResponse(NOT_MODIFIED, headers)]
             ELSE LET original ==
                          [w.original_message EXCEPT
                              !.headers = Append(@, <<ETAG, server_etag>>)]
                  IN  [wrapper |-> [w EXCEPT !.original_message = original],
                       sends |-> <<original, message>>]

(* The bodies of the chunks the downstream application streams. *)
ChunkBodies == { <<"a">>, <<"b">> }

(* The responses of the downstream application: one start message, then one
   to MaxChunks body messages, more_body set on all but the last. *)
ETagResponses ==
    UNION { { <<StartMessage(200, <<>>)>> \o
                  [k \in 1..n |-> ETagBody(bodies[k], k < n)] :
              bodies \in [1..n -> ChunkBodies] } : n \in 1..MaxChunks }

(* The requests: a path that is ignored or not, without a conditional header
   or with one that carries the ETag of the body "a" or a stale one. *)
ETagPaths == { <<"/">>, <<"/", "h">> }

ETagRequestHeaders ==
    { <<>> } \cup
    { << <<name, etag>> >> : name \in {IF_MATCH, IF_NONE_MATCH, CONTENT_TYPE},
                             etag \in {etag_generator(<<"a">>), <<"x">>} }

(* ETagMiddleware(app, etag_generator, ignore_paths=[("GET", "/h")]) *)
ignore_paths == { <<GET, <<"/", "h">> >> }

(* line 46 *)
ETagIgnored(scope) ==
    scope.type # "http" \/ <<scope.method, scope.path>> \in ignore_paths

(* ETagMiddleware.__call__ (lines 45-75) up to its await of self.app. *)
ETagCall(scope, response) ==
    /\ etag_call.pc = "idle"
    /\ etag_call' = [pc |-> "app", scope |-> scope, response |-> response, emitted |-> 0,
                     wrapped |-> ~ETagIgnored(scope)]
    /\ etag_wrapper' =
          IF ETagIgnored(scope) THEN etag_wrapper
          ELSE LET c == ConditionalOf(scope.headers)
               IN  NewETagSendWrapper(c.client_etag, c.conditional_header)
    /\ UNCHANGED <<etag_sent, backendVars, pureVars, mwVars, ctxVars>>

(* The downstream application awaits send(message) for its next message: the
   send it was given is the wrapper, or the original send on an ignored
   path. *)
ETagAppSend ==
    /\ etag_call.pc = "app"
    /\ etag_call.emitted < Len(etag_call.response)
    /\ LET message == etag_call.response[etag_call.emitted + 1]
           r == ETagSendWrapperCall(etag_wrapper, message)
       IN  IF etag_call.wrapped
           THEN /\ etag_wrapper' = r.wrapper
                /\ etag_sent' = etag_sent \o r.sends
           ELSE /\ etag_sent' = Append(etag_sent, message)
                /\ UNCHANGED etag_wrapper
    /\ etag_call' = [etag_call EXCEPT !.emitted = @ + 1]
    /\ UNCHANGED <<backendVars, pureVars, mwVars, ctxVars>>

(* The downstream application returns, and with it ETagMiddleware.__call__. *)
ETagAppReturn ==
    /\ etag_call.pc = "app"
    /\ etag_call.emitted = Len(etag_call.response)
    /\ etag_call' = [etag_call EXCEPT !.pc = "done"]
    /\ UNCHANGED <<etag_wrapper, etag_sent, backendVars, pureVars, mwVars, ctxVars>>

InitETag ==
    /\ ETagIdle
    /\ BackendIdle
    /\ PureIdle
    /\ MwIdle
    /\ CtxIdle

NextETag ==
    \/ \E path \in ETagPaths, headers \in ETagRequestHeaders, response \in ETagResponses :
          ETagCall([type |-> "http", method |-> GET, path |-> path, headers |-> headers],
                   response)
    \/ ETagAppSend
    \/ ETagAppReturn

SpecETag == InitETag /\ [][NextETag]_vars

(* ------------------------------ C40 ----------------------------------- *)
(* The positions of the http.response.start messages among those forwarded. *)
StartsSent == {k \in DOMAIN etag_sent : etag_sent[k].type = "http.response.start"}

(* C40: for every HTTP response on a path that is not ignored the wrapped send
   forwards exactly one http.response.start message, before any
   http.response.body message, however many body messages the downstream
   application emits; the start message is withheld until the first body
   message has been examined. *)
C40_OneStartBeforeBodies ==
    (etag_call.pc # "idle" /\ etag_call.wrapped) =>
        /\ Cardinality(StartsSent) <= 1
        /\ StartsSent \subseteq {1}
        /\ etag_call.emitted <= 1 => etag_sent = <<>>
        /\ etag_call.emitted >= 2 => StartsSent = {1}

====
